---- MODULE Spec2Model ----
(***************************************************************************)
(* Verification model of the cleave relay/pipeline orchestration engine    *)
(* (cleave-sdk).                                                           *)
(*                                                                         *)
(* The module holds several specifications over one set of variables:      *)
(*   SpecLock  - FileLock.acquire()/release() of utils/lock.ts, one action *)
(*               per file-system call, for two orchestrator processes.     *)
(*   SpecRun   - the life cycle of an orchestrator process                 *)
(*               (runRelayLoop / runPipelineLoop): directory               *)
(*               initialisation, lock, cleanup handlers, exits, signals.   *)
(*   SpecRelay - runRelayCore(), the single-stage session loop.            *)
(* Each specification leaves the variables of the others untouched.        *)
(***************************************************************************)
EXTENDS Integers, Sequences, FiniteSets, TLC

VARIABLES
  \* ---- the lock file and the FileLock objects (utils/lock.ts) ----
  lockFile,       \* .cleave/.lock: [exists, content, inode]
  pc,             \* per process: position inside acquire()/release()
  pidRead,        \* per process: the pid / pidStr local read from the file
  acquired,       \* per process: FileLock.acquired
  result,         \* per process: what acquire() returned ("none" before)
  snap,           \* per process: the lock file as it was when acquire() began
  interfered,     \* per process: another process stepped since acquire() began
  releaseDeleted, \* history: <<p, content>> of every file release() of p unlinked
  \* ---- the orchestrator processes (runRelayLoop / runPipelineLoop) ----
  phase,          \* per process: where the process is in its life cycle
  cfg,            \* per process: [mode, resume] of the command line
  cleaned,        \* per process: the `cleaned` flag of the cleanup closure
  stageIdx,       \* per process: index of the pipeline stage being handled
  pmem,           \* per process: the in-memory PipelineState.stages
  folder,         \* the files of the .cleave/ state folder (without the lock)
  hist,           \* per process: history of the run (for the claims)
  \* ---- one run of runRelayCore (relay-loop.ts) ----
  rpc,                \* position: "head", "running", "backoff", "pause", "done"
  rcfg,               \* RelayCoreOptions: [maxSessions, startSession, verify]
  sessionCount,       \* the local sessionCount
  consecutiveLoops,   \* the local consecutiveLoops
  consecutiveCrashes, \* the local consecutiveCrashes
  progressFile,       \* PROGRESS.md: "absent", "working", "complete"
  nextPrompt,         \* NEXT_PROMPT.md: 0 (absent) or an index of PromptTexts
  archive,            \* logs/session_N_next_prompt.md: N -> 0 or a text index
  statusFile,         \* the status last written to status.json
  outcome,            \* how the relay ended: [kind, exitCode]
  rhist,              \* history of the run (for the claims)
  \* ---- one evaluation of isComplete (detection.ts) ----
  crecord,            \* PROGRESS.md: a sequence of lines, each a sequence of tokens
  cmarker,            \* the configured completion marker
  cresult,            \* "none" before the call, then what isComplete returned
  cready,             \* "none", then what the launcher's completion pattern answered
  \* ---- one call of runSession (session.ts) ----
  scfg,               \* [mode, timeout]: config.sessionMode, config.sessionTimeout
  spc,                \* launcher: "running", "hung", "returned"
  child,              \* the agent subprocess: "alive", "exited"
  skilled,            \* killed / killedByRelay
  stools,             \* toolUseCount > 0 (print mode)
  sfiles,             \* PROGRESS.md, NEXT_PROMPT.md, .handoff_signal
  sres,               \* SessionResult: [exitCode, rateLimited]
  shist,              \* history of the call (for the claims)
  \* ---- loadPipelineConfig / validateDag (pipeline-config.ts) ----
  vstages,            \* the stage list of the configuration file
  vresult,            \* "none", "accepted", "rejected"
  \* ---- runPipelineLoop (pipeline-loop.ts) ----
  pcfg,               \* [stages, resume, skip]: pipeline and options
  prun,               \* [pc, idx, attempt, exitCode]: position in the loop
  pstate,             \* state.stages: status of every stage
  psaved,             \* pipeline_state.json: the stages of the persisted record
  plog,               \* history: stages whose relay was launched, in order
  \* ---- compactKnowledge (state/knowledge.ts) ----
  kfile,              \* KNOWLEDGE.md, line by line
  kkeep,              \* keepSessions
  khist,              \* [original, first, calls]: the file before / after the calls
  \* ---- detectLoop / textSimilarity on arbitrary texts (detection.ts) ----
  dprev,              \* the archived next-task text
  dcurr,              \* the current next-task text
  dres,               \* [loopCalled, loop, simCalled, swapped]: results of the calls
  \* ---- the handoff poller of runTuiSession (session.ts:175-226) ----
  tfiles,             \* PROGRESS.md, NEXT_PROMPT.md, .handoff_signal as the poller sees them
  tpoll,              \* [lastNextPromptSize, pc]: the poller's variable and position
  thist,              \* history: what the last two polls observed
  \* ---- the handoff signal file across sessions (state/files.ts touchSessionStart, session.ts) ----
  gclock,             \* the file system's clock (mtimeMs)
  gstart,             \* .session_start: [exists, mtime]
  gsignal,            \* .handoff_signal: [exists, mtime, session]
  gsess,              \* [n, pc]: the ordinal of the session and the relay's position
  ghist,              \* history: which signal files the checks accepted
  \* ---- runStage after its relay core returned (pipeline-loop.ts:355-364) ----
  stg,                \* [pc, completed, verifyRan, verifyPassed]: what runStage returns
  \* ---- resetStageForRetry (state/files.ts) ----
  rfolder,            \* the files of the stage folder: 0 when absent, else a content
  rbefore,            \* history: the folder before the call, <<>> before any call
  \* ---- handleRateLimit (relay-loop.ts) ----
  rl,                 \* one call of handleRateLimit: its position, inputs, waitMs and countdown (in seconds)
  \* ---- runPrintSession (session.ts) ----
  pr                  \* one streamed session: the wrapper's position and listeners, the child's events

lockAux == <<pc, pidRead, result, snap, interfered, releaseDeleted>>
lockVars == <<lockFile, acquired, lockAux>>

runVars == <<phase, cfg, cleaned, stageIdx, pmem, folder, hist>>
relayVars == <<rpc, rcfg, sessionCount, consecutiveLoops, consecutiveCrashes,
               progressFile, nextPrompt, archive, statusFile, outcome, rhist>>

completeVars == <<crecord, cmarker, cresult, cready>>
sessVars == <<scfg, spc, child, skilled, stools, sfiles, sres, shist>>
dagVars == <<vstages, vresult>>
pipeVars == <<pcfg, prun, pstate, psaved, plog>>
knowVars == <<kfile, kkeep, khist>>
simVars == <<dprev, dcurr, dres>>
pollVars == <<tfiles, tpoll, thist>>
sigVars == <<gclock, gstart, gsignal, gsess, ghist>>
stgVars == <<stg>>
rstVars == <<rfolder, rbefore>>
rlVars == <<rl>>
prVars == <<pr>>
extVars == <<completeVars, sessVars, dagVars, pipeVars, knowVars, simVars, pollVars, sigVars, stgVars, rstVars, rlVars, prVars>>
notComplete == <<lockVars, runVars, relayVars, sessVars, dagVars, pipeVars, knowVars, simVars, pollVars, sigVars, stgVars, rstVars, rlVars, prVars>>
notSess == <<lockVars, runVars, relayVars, completeVars, dagVars, pipeVars, knowVars, simVars, pollVars, sigVars, stgVars, rstVars, rlVars, prVars>>
notDag == <<lockVars, runVars, relayVars, completeVars, sessVars, pipeVars, knowVars, simVars, pollVars, sigVars, stgVars, rstVars, rlVars, prVars>>
notPipe == <<lockVars, runVars, relayVars, completeVars, sessVars, dagVars, knowVars, simVars, pollVars, sigVars, stgVars, rstVars, rlVars, prVars>>
notKnow == <<lockVars, runVars, relayVars, completeVars, sessVars, dagVars, pipeVars, simVars, pollVars, sigVars, stgVars, rstVars, rlVars, prVars>>
notSim == <<lockVars, runVars, relayVars, completeVars, sessVars, dagVars, pipeVars, knowVars, pollVars, sigVars, stgVars, rstVars, rlVars, prVars>>
notPoll == <<lockVars, runVars, relayVars, completeVars, sessVars, dagVars, pipeVars, knowVars, simVars, sigVars, stgVars, rstVars, rlVars, prVars>>
notSig == <<lockVars, runVars, relayVars, completeVars, sessVars, dagVars, pipeVars, knowVars, simVars, pollVars, stgVars, rstVars, rlVars, prVars>>
notStg == <<lockVars, runVars, relayVars, completeVars, sessVars, dagVars, pipeVars, knowVars, simVars, pollVars, sigVars, rstVars, rlVars, prVars>>
notRst == <<lockVars, runVars, relayVars, completeVars, sessVars, dagVars, pipeVars, knowVars, simVars, pollVars, sigVars, stgVars, rlVars, prVars>>
notRl == <<lockVars, runVars, relayVars, completeVars, sessVars, dagVars, pipeVars, knowVars, simVars, pollVars, sigVars, stgVars, rstVars, prVars>>
notPr == <<lockVars, runVars, relayVars, completeVars, sessVars, dagVars, pipeVars, knowVars, simVars, pollVars, sigVars, stgVars, rstVars, rlVars>>

vars == <<lockVars, runVars, relayVars, extVars>>

----------------------------------------------------------------------------
(* Processes.  Procs are the two orchestrator processes; DeadPids are PIDs *)
(* of processes that no longer exist (a crashed earlier run).              *)
Procs == {1, 2}
DeadPids == {3}

\* parseInt() of an empty or corrupted lock file is NaN; the model writes it 0.
NaNPid == 0

NoFile == [exists |-> FALSE, content |-> NaNPid, inode |-> NaNPid]

\* A process exists (process.kill(pid, 0) does not throw) from its start to its exit.
LockAlive(p) == p \in Procs /\ pc[p] \notin {"idle", "dead", "exited"}

\* Positions between the first and the last file-system call of acquire().
InAcquire(p) == pc[p] \in {"cs_exists", "cs_read", "cs_kill", "cs_unlink", "open", "write"}

\* Every step of process p is "interference" for the others.
Step(p) == [q \in Procs |-> IF q = p THEN interfered[q] ELSE TRUE]

----------------------------------------------------------------------------
(* Values of the variables a specification does not use.                   *)

IdleLockAux ==
  /\ pc = [p \in Procs |-> "idle"]
  /\ pidRead = [p \in Procs |-> NaNPid]
  /\ result = [p \in Procs |-> "none"]
  /\ snap = [p \in Procs |-> [exists |-> FALSE, content |-> NaNPid, alive |-> FALSE]]
  /\ interfered = [p \in Procs |-> FALSE]
  /\ releaseDeleted = {}

IdleRun ==
  /\ phase = [p \in Procs |-> "off"]
  /\ cfg = <<>>
  /\ cleaned = [p \in Procs |-> FALSE]
  /\ stageIdx = [p \in Procs |-> 0]
  /\ pmem = <<>>
  /\ folder = <<>>
  /\ hist = <<>>

IdleRelay ==
  /\ rpc = "off"
  /\ rcfg = <<>>
  /\ sessionCount = 0
  /\ consecutiveLoops = 0
  /\ consecutiveCrashes = 0
  /\ progressFile = "absent"
  /\ nextPrompt = 0
  /\ archive = <<>>
  /\ statusFile = "none"
  /\ outcome = <<>>
  /\ rhist = <<>>

IdleComplete ==
  /\ crecord = <<>>
  /\ cmarker = "none"
  /\ cresult = "none"
  /\ cready = "none"

IdleSess ==
  /\ scfg = <<>>
  /\ spc = "off"
  /\ child = "none"
  /\ skilled = FALSE
  /\ stools = FALSE
  /\ sfiles = <<>>
  /\ sres = <<>>
  /\ shist = <<>>

IdleDag ==
  /\ vstages = <<>>
  /\ vresult = "none"

IdlePipe ==
  /\ pcfg = <<>>
  /\ prun = <<>>
  /\ pstate = <<>>
  /\ psaved = <<>>
  /\ plog = <<>>

IdleKnow ==
  /\ kfile = <<>>
  /\ kkeep = 0
  /\ khist = <<>>

IdleSim ==
  /\ dprev = <<>>
  /\ dcurr = <<>>
  /\ dres = <<>>

IdlePoll ==
  /\ tfiles = <<>>
  /\ tpoll = <<>>
  /\ thist = <<>>

IdleSig ==
  /\ gclock = 0
  /\ gstart = <<>>
  /\ gsignal = <<>>
  /\ gsess = <<>>
  /\ ghist = <<>>

IdleStg ==
  /\ stg = <<>>

IdleRst ==
  /\ rfolder = <<>>
  /\ rbefore = <<>>

IdleRl ==
  /\ rl = <<>>

IdlePr ==
  /\ pr = <<>>

IdleExt == IdleComplete /\ IdleSess /\ IdleDag /\ IdlePipe /\ IdleKnow /\ IdleSim /\ IdlePoll /\ IdleSig /\ IdleStg /\ IdleRst /\ IdleRl /\ IdlePr

----------------------------------------------------------------------------
(* FileLock.acquire(): cleanStaleLock() then the exclusive create.         *)

\* A process is started (or a PID of an exited process is reused by a new
\* orchestrator process) and calls acquire(): lock.ts:21-23.
BeginAcquire(p) ==
  /\ pc[p] \in {"idle", "dead", "exited"}
  /\ pc' = [pc EXCEPT ![p] = "cs_exists"]
  /\ acquired' = [acquired EXCEPT ![p] = FALSE]
  /\ result' = [result EXCEPT ![p] = "none"]
  /\ pidRead' = [pidRead EXCEPT ![p] = NaNPid]
  /\ snap' = [snap EXCEPT ![p] =
                [exists |-> lockFile.exists,
                 content |-> lockFile.content,
                 alive |-> LockAlive(lockFile.content)]]
  /\ interfered' = [q \in Procs |-> q # p]
  /\ UNCHANGED <<lockFile, releaseDeleted, runVars, relayVars, extVars>>

\* lock.ts:47  if (!fs.existsSync(this.lockPath)) return;
CsExists(p) ==
  /\ pc[p] = "cs_exists"
  /\ pc' = [pc EXCEPT ![p] = IF lockFile.exists THEN "cs_read" ELSE "open"]
  /\ interfered' = Step(p)
  /\ UNCHANGED <<lockFile, pidRead, acquired, result, snap, releaseDeleted, runVars, relayVars, extVars>>

\* lock.ts:48-54  readFileSync + parseInt; a vanished file throws into the
\* outer catch (lock.ts:62), a NaN goes to the unlink of lock.ts:52.
CsRead(p) ==
  /\ pc[p] = "cs_read"
  /\ IF ~lockFile.exists
       THEN /\ pc' = [pc EXCEPT ![p] = "open"]
            /\ UNCHANGED pidRead
       ELSE /\ pidRead' = [pidRead EXCEPT ![p] = lockFile.content]
            /\ pc' = [pc EXCEPT ![p] =
                        IF lockFile.content = NaNPid THEN "cs_unlink" ELSE "cs_kill"]
  /\ interfered' = Step(p)
  /\ UNCHANGED <<lockFile, acquired, result, snap, releaseDeleted, runVars, relayVars, extVars>>

\* lock.ts:55-61  process.kill(pid, 0): alive leaves the file, dead unlinks it.
CsKill(p) ==
  /\ pc[p] = "cs_kill"
  /\ pc' = [pc EXCEPT ![p] = IF LockAlive(pidRead[p]) THEN "open" ELSE "cs_unlink"]
  /\ interfered' = Step(p)
  /\ UNCHANGED <<lockFile, pidRead, acquired, result, snap, releaseDeleted, runVars, relayVars, extVars>>

\* lock.ts:52 and lock.ts:60  fs.unlinkSync(this.lockPath): removes whatever
\* file the path names now; ENOENT is swallowed by the catch of lock.ts:62.
CsUnlink(p) ==
  /\ pc[p] = "cs_unlink"
  /\ lockFile' = NoFile
  /\ pc' = [pc EXCEPT ![p] = "open"]
  /\ interfered' = Step(p)
  /\ UNCHANGED <<pidRead, acquired, result, snap, releaseDeleted, runVars, relayVars, extVars>>

\* lock.ts:27  fs.openSync(lockPath, 'wx'): creates an empty file, or EEXIST
\* and acquire() returns false (lock.ts:33-35).
OpenExcl(p) ==
  /\ pc[p] = "open"
  /\ IF lockFile.exists
       THEN /\ result' = [result EXCEPT ![p] = "false"]
            /\ pc' = [pc EXCEPT ![p] = "ret_false"]
            /\ UNCHANGED lockFile
       ELSE /\ lockFile' = [exists |-> TRUE, content |-> NaNPid, inode |-> p]
            /\ pc' = [pc EXCEPT ![p] = "write"]
            /\ UNCHANGED result
  /\ interfered' = Step(p)
  /\ UNCHANGED <<pidRead, acquired, snap, releaseDeleted, runVars, relayVars, extVars>>

\* lock.ts:28-31  writeSync(fd, pid) writes the file the descriptor names: if
\* the path was unlinked (and re-created) meanwhile the write is not seen
\* under the path.  Then acquired = true; return true.
WritePid(p) ==
  /\ pc[p] = "write"
  /\ lockFile' = IF lockFile.exists /\ lockFile.inode = p
                   THEN [lockFile EXCEPT !.content = p]
                   ELSE lockFile
  /\ acquired' = [acquired EXCEPT ![p] = TRUE]
  /\ result' = [result EXCEPT ![p] = "true"]
  /\ pc' = [pc EXCEPT ![p] = "held"]
  /\ interfered' = Step(p)
  /\ UNCHANGED <<pidRead, snap, releaseDeleted, runVars, relayVars, extVars>>

----------------------------------------------------------------------------
(* FileLock.release(): lock.ts:67-80.                                      *)

\* lock.ts:68-72  if (this.acquired) { pidStr = readFileSync(...); compare }.
\* A missing file throws into the catch of lock.ts:75; acquired = false.
ReleaseRead(p) ==
  /\ pc[p] = "held"
  /\ acquired[p]
  /\ IF lockFile.exists /\ lockFile.content = p
       THEN /\ pc' = [pc EXCEPT ![p] = "rel_unlink"]
            /\ UNCHANGED acquired
       ELSE /\ pc' = [pc EXCEPT ![p] = "exited"]
            /\ acquired' = [acquired EXCEPT ![p] = FALSE]
  /\ pidRead' = [pidRead EXCEPT ![p] = IF lockFile.exists THEN lockFile.content ELSE NaNPid]
  /\ interfered' = Step(p)
  /\ UNCHANGED <<lockFile, result, snap, releaseDeleted, runVars, relayVars, extVars>>

\* lock.ts:73  fs.unlinkSync(this.lockPath); lock.ts:78 acquired = false.
ReleaseUnlink(p) ==
  /\ pc[p] = "rel_unlink"
  /\ lockFile' = NoFile
  /\ releaseDeleted' = IF lockFile.exists
                         THEN releaseDeleted \cup {<<p, lockFile.content>>}
                         ELSE releaseDeleted
  /\ acquired' = [acquired EXCEPT ![p] = FALSE]
  /\ pc' = [pc EXCEPT ![p] = "exited"]
  /\ interfered' = Step(p)
  /\ UNCHANGED <<pidRead, result, snap, runVars, relayVars, extVars>>

\* release() of a FileLock that did not acquire: lock.ts:68, the guard is
\* false and nothing is done.  (acquire() returned false; the process exits.)
ReleaseNotAcquired(p) ==
  /\ pc[p] = "ret_false"
  /\ ~acquired[p]
  /\ pc' = [pc EXCEPT ![p] = "exited"]
  /\ interfered' = Step(p)
  /\ UNCHANGED <<lockFile, pidRead, acquired, result, snap, releaseDeleted, runVars, relayVars, extVars>>

\* The process is killed (SIGKILL, power loss): no handler runs, the lock
\* file stays as it is.
Kill(p) ==
  /\ pc[p] \notin {"idle", "dead", "exited"}
  /\ pc' = [pc EXCEPT ![p] = "dead"]
  /\ acquired' = [acquired EXCEPT ![p] = FALSE]
  /\ interfered' = Step(p)
  /\ UNCHANGED <<lockFile, pidRead, result, snap, releaseDeleted, runVars, relayVars, extVars>>

InitLock ==
  /\ lockFile \in {NoFile}
                    \cup {[exists |-> TRUE, content |-> c, inode |-> NaNPid] :
                             c \in DeadPids \cup {NaNPid}}
  /\ acquired = [p \in Procs |-> FALSE]
  /\ IdleLockAux
  /\ IdleRun
  /\ IdleRelay
  /\ IdleExt

NextLock ==
  \E p \in Procs :
    \/ BeginAcquire(p)
    \/ CsExists(p)
    \/ CsRead(p)
    \/ CsKill(p)
    \/ CsUnlink(p)
    \/ OpenExcl(p)
    \/ WritePid(p)
    \/ ReleaseRead(p)
    \/ ReleaseUnlink(p)
    \/ ReleaseNotAcquired(p)
    \/ Kill(p)

SpecLock == InitLock /\ [][NextLock]_vars

----------------------------------------------------------------------------
(* Claims about the lock.                                                  *)

\* C1: for every interleaving of the file-system steps of two processes
\* calling acquire() on the same directory (lock file initially absent,
\* stale or created but not yet filled in), at most one of the two calls
\* returns true: never are both processes past a successful acquire().
C1_AtMostOneAcquires ==
  ~(\E p, q \in Procs : p # q /\ pc[p] = "held" /\ pc[q] = "held")

\* C3: executed without interference, acquire() returns true iff no other
\* live process holds the lock: false only when the file recorded the PID
\* of a different live process when acquire() began.
C3_AcquireIffNoOtherLiveHolder ==
  \A p \in Procs :
    (result[p] # "none" /\ ~interfered[p]) =>
      ((result[p] = "true") <=>
         ~(snap[p].exists /\ snap[p].content \in Procs \ {p} /\ snap[p].alive))

\* C4: release() deletes the lock file only if its content equals the
\* caller's PID at that moment: a lock file that identifies a different
\* process is never deleted by release().
C4_ReleaseDeletesOnlyOwnLock ==
  \A e \in releaseDeleted : e[2] = e[1]

----------------------------------------------------------------------------
(* The orchestrator process: runRelayLoop (relay-loop.ts:244-317) and      *)
(* runPipelineLoop (pipeline-loop.ts:34-241).  acquire() and release() are *)
(* taken here as executed without interference (SpecLock has the           *)
(* interleavings of their file-system calls).                              *)

\* Stages of the pipeline configuration, in declared order.
NumStages == 2
Stages == 1..NumStages

\* lock.ts:45-65 executed in one piece; `alive` are the PIDs that exist.
CleanStaleLockSeq(file, alive) ==
  IF ~file.exists THEN file
  ELSE IF file.content = NaNPid THEN NoFile
  ELSE IF file.content \in alive THEN file
  ELSE NoFile

\* lock.ts:21-40 executed in one piece: [ok, file].
AcquireSeq(file, p, alive) ==
  LET f == CleanStaleLockSeq(file, alive) IN
    IF f.exists
      THEN [ok |-> FALSE, file |-> f]
      ELSE [ok |-> TRUE, file |-> [exists |-> TRUE, content |-> p, inode |-> p]]

\* lock.ts:67-80 executed in one piece: the file after release().
ReleaseSeq(file, p, acq) ==
  IF acq /\ file.exists /\ file.content = p THEN NoFile ELSE file

RunAlive == {p \in Procs : phase[p] \notin {"off", "exited"}}

AllStages(v) == [i \in Stages |-> v]

\* state/files.ts initRelayDir: KNOWLEDGE.md if missing, .active_relay = '1'.
InitRelayDir(f) == [f EXCEPT !.kb = TRUE, !.active = TRUE]

\* state/files.ts initRelayDir on the paths of stage i.
InitStageDir(f, i) == [f EXCEPT !.skb[i] = TRUE, !.sactive[i] = TRUE]

\* state/files.ts cleanupRelay: unlink .active_relay, .session_start, .handoff_signal.
CleanupRelay(f) == [f EXCEPT !.active = FALSE, !.sstart = FALSE, !.signal = FALSE]

\* pipeline-loop.ts:84-87: unlink .active_pipeline.
CleanupPipeline(f) == [f EXCEPT !.pactive = FALSE]

\* What a process leaves behind in the folder f with lock file lf when it
\* exits: its lock file and the active markers of its run.
LeftBehind(p, f, lf, ran) ==
     (IF lf.exists /\ lf.content = p THEN {"lock"} ELSE {})
  \cup (IF cfg[p].mode = "relay" /\ f.active THEN {"active_relay"} ELSE {})
  \cup (IF cfg[p].mode = "pipeline" /\ f.pactive THEN {"active_pipeline"} ELSE {})
  \cup (IF cfg[p].mode = "pipeline" /\ \E i \in ran : f.sactive[i]
          THEN {"stage_active_relay"} ELSE {})

\* The cleanup closure and the exit: relay-loop.ts:273-282,
\* pipeline-loop.ts:79-91.  Reached through the 'exit' event (return,
\* process.exit) and through the SIGINT / SIGTERM handlers.
CleanupAndExit(p, f) ==
  LET f2 == IF cleaned[p] THEN f
            ELSE IF cfg[p].mode = "relay" THEN CleanupRelay(f)
            ELSE CleanupPipeline(f)
      lf2 == IF cleaned[p] THEN lockFile ELSE ReleaseSeq(lockFile, p, acquired[p])
  IN /\ folder' = f2
     /\ lockFile' = lf2
     /\ cleaned' = [cleaned EXCEPT ![p] = TRUE]
     /\ acquired' = [acquired EXCEPT ![p] = FALSE]
     /\ phase' = [phase EXCEPT ![p] = "exited"]
     /\ hist' = [hist EXCEPT ![p].left = LeftBehind(p, f2, lf2, hist[p].ran)]

FreshHist(changed) ==
  [hadLock |-> FALSE,
   changedUnlocked |-> changed,
   heldByOther |-> FALSE,
   ran |-> {},
   left |-> {},
   agent |-> "none"]

\* `cleave run` / `cleave continue`: relay-loop.ts:245-257.  A fresh run
\* initialises the directory, a continuation only makes logs/.
RelayStart(p, cont) ==
  /\ phase[p] = "off"
  /\ LET f2 == IF cont THEN folder ELSE InitRelayDir(folder) IN
       /\ folder' = f2
       /\ hist' = [hist EXCEPT ![p] =
                     [FreshHist(f2 # folder) EXCEPT
                        !.heldByOther = lockFile.exists
                                          /\ lockFile.content \in RunAlive \ {p}]]
  /\ cfg' = [cfg EXCEPT ![p] = [mode |-> "relay", resume |-> cont, at |-> 1]]
  /\ phase' = [phase EXCEPT ![p] = "inited"]
  /\ cleaned' = [cleaned EXCEPT ![p] = FALSE]
  /\ UNCHANGED <<lockFile, acquired, stageIdx, pmem, lockAux, relayVars, extVars>>

\* `cleave pipeline`: pipeline-loop.ts:43-66.  Without --resume-stage (or
\* without a saved state) initPipelineDir resets every stage to pending and
\* saves the state (state/files.ts initPipelineDir, savePipelineState).
PipeStart(p, resume, at) ==
  /\ phase[p] = "off"
  /\ LET existing == folder.pstate # AllStages("nofile")
         st == IF existing /\ resume THEN folder.pstate ELSE AllStages("pending")
         f2 == [folder EXCEPT !.pstate = st]
     IN /\ folder' = f2
        /\ pmem' = [pmem EXCEPT ![p] = st]
        /\ hist' = [hist EXCEPT ![p] =
                      [FreshHist(f2 # folder) EXCEPT
                         !.heldByOther = lockFile.exists
                                           /\ lockFile.content \in RunAlive \ {p}]]
  /\ cfg' = [cfg EXCEPT ![p] = [mode |-> "pipeline", resume |-> resume, at |-> at]]
  /\ phase' = [phase EXCEPT ![p] = "inited"]
  /\ cleaned' = [cleaned EXCEPT ![p] = FALSE]
  /\ UNCHANGED <<lockFile, acquired, stageIdx, lockAux, relayVars, extVars>>

\* relay-loop.ts:260-266, pipeline-loop.ts:69-73: the lock is held by
\* another process; process.exit(1) before any cleanup handler exists.
AcquireFails(p) ==
  /\ phase[p] = "inited"
  /\ LET r == AcquireSeq(lockFile, p, RunAlive) IN
       /\ ~r.ok
       /\ lockFile' = r.file
  /\ phase' = [phase EXCEPT ![p] = "exited"]
  /\ UNCHANGED <<acquired, cfg, cleaned, stageIdx, pmem, folder, hist, lockAux, relayVars, extVars>>

\* relay-loop.ts:260-294: lock acquired, handlers registered, continuation
\* reset (resetForContinuation re-marks .active_relay); then runRelayCore.
\* pipeline-loop.ts:69-116: lock acquired, .active_pipeline written,
\* handlers registered, the starting stage determined.
AcquireOk(p) ==
  /\ phase[p] = "inited"
  /\ LET r == AcquireSeq(lockFile, p, RunAlive) IN
       /\ r.ok
       /\ lockFile' = r.file
  /\ acquired' = [acquired EXCEPT ![p] = TRUE]
  /\ hist' = [hist EXCEPT ![p].hadLock = TRUE]
  /\ IF cfg[p].mode = "relay"
       THEN /\ folder' = IF cfg[p].resume THEN [folder EXCEPT !.active = TRUE] ELSE folder
            /\ phase' = [phase EXCEPT ![p] = "head"]
            /\ UNCHANGED stageIdx
       ELSE /\ folder' = [folder EXCEPT !.pactive = TRUE]
            /\ phase' = [phase EXCEPT ![p] = "stage_loop"]
            /\ stageIdx' = [stageIdx EXCEPT ![p] = IF cfg[p].resume THEN cfg[p].at ELSE 1]
  /\ UNCHANGED <<cfg, cleaned, pmem, lockAux, relayVars, extVars>>

\* pipeline-loop.ts:119-136 and runStage 255-264: a stage already complete
\* is passed over; otherwise the stage directory is initialised, the stage
\* is saved as in_progress and its relay core starts.
StageBegin(p) ==
  /\ phase[p] = "stage_loop"
  /\ stageIdx[p] \in Stages
  /\ LET i == stageIdx[p] IN
       IF pmem[p][i] = "complete"
         THEN /\ stageIdx' = [stageIdx EXCEPT ![p] = i + 1]
              /\ UNCHANGED <<phase, pmem, folder, hist>>
         ELSE /\ pmem' = [pmem EXCEPT ![p][i] = "in_progress"]
              /\ folder' = [InitStageDir(folder, i) EXCEPT !.pstate = pmem'[p]]
              /\ hist' = [hist EXCEPT ![p].ran = @ \cup {i}]
              /\ phase' = [phase EXCEPT ![p] = "head"]
              /\ UNCHANGED stageIdx
  /\ UNCHANGED <<lockFile, acquired, cfg, cleaned, lockAux, relayVars, extVars>>

\* pipeline-loop.ts:225-241: every stage handled; the final state is saved
\* and runPipelineLoop returns, the process exits.
PipeFinish(p) ==
  /\ phase[p] = "stage_loop"
  /\ stageIdx[p] \notin Stages
  /\ CleanupAndExit(p, [folder EXCEPT !.pstate = pmem[p]])
  /\ UNCHANGED <<cfg, stageIdx, pmem, lockAux, relayVars, extVars>>

\* relay-loop.ts:140-148: the core launches a session; touchSessionStart
\* writes .session_start and removes .handoff_signal (of the relay or of the
\* stage), then the core waits for the subprocess.
CoreLaunch(p) ==
  /\ phase[p] = "head"
  /\ folder' = IF cfg[p].mode = "relay"
                 THEN [folder EXCEPT !.sstart = TRUE, !.signal = FALSE]
                 ELSE [folder EXCEPT !.ssstart[stageIdx[p]] = TRUE]
  /\ phase' = [phase EXCEPT ![p] = "session"]
  /\ hist' = [hist EXCEPT ![p].agent = "alive"]
  /\ UNCHANGED <<lockFile, acquired, cfg, cleaned, stageIdx, pmem, lockAux, relayVars, extVars>>

\* session.ts:549-560, 686-693: the subprocess spawned for the session
\* exits, while the orchestrator waits for it or after the orchestrator
\* process itself has exited (nothing in the exit path ends the child).
ChildExit(p) ==
  /\ phase[p] \in {"session", "exited"}
  /\ hist[p].agent = "alive"
  /\ hist' = [hist EXCEPT ![p].agent = "exited"]
  /\ UNCHANGED <<lockFile, acquired, phase, cfg, cleaned, stageIdx, pmem, folder,
                 lockAux, relayVars, extVars>>

\* runSession resolves when the subprocess has closed.
SessionOver(p) == phase[p] = "session" => hist[p].agent = "exited"

\* The agent (or the rescue handoff, session.ts:477) writes .handoff_signal
\* while the session runs.
AgentSignal(p) ==
  /\ phase[p] = "session"
  /\ cfg[p].mode = "relay"
  /\ ~folder.signal
  /\ folder' = [folder EXCEPT !.signal = TRUE]
  /\ UNCHANGED <<lockFile, acquired, phase, cfg, cleaned, stageIdx, pmem, hist, lockAux, relayVars, extVars>>

\* relay-loop.ts:162-169 and 227-232: after the session the core sleeps in
\* the rate-limit backoff or in the inter-session pause.
CoreSleep(p, kind) ==
  /\ phase[p] = "session"
  /\ SessionOver(p)
  /\ kind \in {"backoff", "pause"}
  /\ phase' = [phase EXCEPT ![p] = kind]
  /\ UNCHANGED <<lockFile, acquired, cfg, cleaned, stageIdx, pmem, folder, hist, lockAux, relayVars, extVars>>

\* The sleep ends and the loop goes to its head.
CoreWake(p) ==
  /\ phase[p] \in {"backoff", "pause"}
  /\ phase' = [phase EXCEPT ![p] = "head"]
  /\ UNCHANGED <<lockFile, acquired, cfg, cleaned, stageIdx, pmem, folder, hist, lockAux, relayVars, extVars>>

\* runRelayCore returns (completed, max sessions, or a fatal stop) at the
\* loop head or after a session.  Relay mode, relay-loop.ts:307-316: return,
\* process.exit(1) or process.exit(2), each through the 'exit' handler.
RelayReturn(p) ==
  /\ phase[p] \in {"head", "session"}
  /\ SessionOver(p)
  /\ cfg[p].mode = "relay"
  /\ CleanupAndExit(p, folder)
  /\ UNCHANGED <<cfg, stageIdx, pmem, lockAux, relayVars, extVars>>

\* Pipeline mode, pipeline-loop.ts:179-222 for a stage with onFail: stop: a
\* completed stage is saved complete and the loop goes on; a stage that did
\* not complete is saved failed and the process exits with code 1.
StageReturn(p, completed) ==
  /\ phase[p] \in {"head", "session"}
  /\ SessionOver(p)
  /\ cfg[p].mode = "pipeline"
  /\ LET i == stageIdx[p] IN
       IF completed
         THEN /\ pmem' = [pmem EXCEPT ![p][i] = "complete"]
              /\ folder' = [folder EXCEPT !.pstate = pmem'[p]]
              /\ stageIdx' = [stageIdx EXCEPT ![p] = i + 1]
              /\ phase' = [phase EXCEPT ![p] = "stage_loop"]
              /\ UNCHANGED <<lockFile, acquired, cleaned, hist>>
         ELSE /\ pmem' = [pmem EXCEPT ![p][i] = "failed"]
              /\ CleanupAndExit(p, [folder EXCEPT !.pstate = pmem'[p]])
              /\ UNCHANGED stageIdx
  /\ UNCHANGED <<cfg, lockAux, relayVars, extVars>>

\* SIGINT / SIGTERM while the process is suspended (waiting for the
\* subprocess, backoff, pause): relay-loop.ts:281-282, pipeline-loop.ts:90-91.
Signal(p) ==
  /\ phase[p] \in {"session", "backoff", "pause"}
  /\ CleanupAndExit(p, folder)
  /\ UNCHANGED <<cfg, stageIdx, pmem, lockAux, relayVars, extVars>>

InitRun ==
  /\ lockFile \in {NoFile} \cup {[exists |-> TRUE, content |-> c, inode |-> NaNPid] : c \in DeadPids}
  /\ acquired = [p \in Procs |-> FALSE]
  /\ IdleLockAux
  /\ phase = [p \in Procs |-> "off"]
  /\ cfg = [p \in Procs |-> [mode |-> "relay", resume |-> FALSE, at |-> 1]]
  /\ cleaned = [p \in Procs |-> FALSE]
  /\ stageIdx = [p \in Procs |-> 1]
  /\ pmem = [p \in Procs |-> AllStages("nofile")]
  /\ folder = [kb |-> FALSE, active |-> FALSE, sstart |-> FALSE, signal |-> FALSE,
               pstate |-> AllStages("nofile"), pactive |-> FALSE,
               skb |-> AllStages(FALSE), sactive |-> AllStages(FALSE),
               ssstart |-> AllStages(FALSE)]
  /\ hist = [p \in Procs |-> FreshHist(FALSE)]
  /\ IdleRelay
  /\ IdleExt

NextRun ==
  \E p \in Procs :
    \/ \E cont \in BOOLEAN : RelayStart(p, cont)
    \/ \E resume \in BOOLEAN, at \in Stages : PipeStart(p, resume, at)
    \/ AcquireFails(p)
    \/ AcquireOk(p)
    \/ StageBegin(p)
    \/ PipeFinish(p)
    \/ CoreLaunch(p)
    \/ ChildExit(p)
    \/ AgentSignal(p)
    \/ \E kind \in {"backoff", "pause"} : CoreSleep(p, kind)
    \/ CoreWake(p)
    \/ RelayReturn(p)
    \/ \E completed \in BOOLEAN : StageReturn(p, completed)
    \/ Signal(p)

SpecRun == InitRun /\ [][NextRun]_vars

----------------------------------------------------------------------------
(* Claims about the process life cycle.                                    *)

\* C2: a relay or pipeline process started while another live process
\* holds the lock exits without having created, modified or reset any file
\* of the state folder.
C2_NoChangeWithoutLock ==
  \A p \in Procs :
    (phase[p] = "exited" /\ hist[p].heldByOther /\ ~hist[p].hadLock)
      => ~hist[p].changedUnlocked

\* C5: once a process has acquired the lock, every way it terminates
\* (return, fatal or max-sessions exit, SIGINT/SIGTERM at a suspension
\* point) removes its lock file and clears the active markers of the run,
\* in pipeline mode including those of the stage in progress.
C5_ExitCleansUp ==
  \A p \in Procs :
    (phase[p] = "exited" /\ hist[p].hadLock) => hist[p].left = {}

\* The part of C5 that the code keeps: the lock file and the markers of the
\* top-level folder are removed on every exit.
C5_ExitCleansTopLevel ==
  \A p \in Procs :
    (phase[p] = "exited" /\ hist[p].hadLock) => hist[p].left \subseteq {"stage_active_relay"}

----------------------------------------------------------------------------
(* runRelayCore (relay-loop.ts:77-237) with the result handling of         *)
(* runRelayLoop (relay-loop.ts:307-316), and the loop detection of         *)
(* detection.ts.                                                           *)

\* Bounds of the explored configurations.
MaxSessionsBound == 4
MaxStart == 1
MaxRateLimits == 1

\* relay-loop.ts:100 and :174, detection.ts:74.
LoopLimit == 3
CrashLimit == 3
LoopThreshold == 85

\* A text file is a sequence of lines; a line is <<id, length>>, id 0 being
\* a line that is empty after trim().  The contents the agent may leave in
\* NEXT_PROMPT.md: two texts of equal size with no line in common, the
\* second one ending with an empty line.
PromptTexts ==
  << << <<1, 10>>, <<2, 10>> >>,
     << <<3, 10>>, <<4, 9>>, <<0, 0>> >> >>
TextIds == 1..Len(PromptTexts)

RECURSIVE SumLen(_)
SumLen(t) == IF t = <<>> THEN 0 ELSE Head(t)[2] + SumLen(Tail(t))

\* String.length of the file: the lines joined by '\n'.
TextLength(t) == IF t = <<>> THEN 0 ELSE SumLen(t) + Len(t) - 1

\* split('\n').filter(l => l.trim())
NonBlank(t) == SelectSeq(t, LAMBDA l : l[1] # 0)

Max(a, b) == IF a >= b THEN a ELSE b
Abs(a) == IF a >= 0 THEN a ELSE 0 - a

\* detection.ts:43-63.
TextSimilarity(textA, textB) ==
  IF TextLength(textA) = 0 /\ TextLength(textB) = 0 THEN 100
  ELSE IF TextLength(textA) = 0 \/ TextLength(textB) = 0 THEN 0
  ELSE LET linesA == NonBlank(textA)
           linesB == NonBlank(textB)
           setB == {linesB[i] : i \in 1..Len(linesB)}
           matches == Cardinality({i \in 1..Len(linesA) : linesA[i] \in setB})
           maxLines == Max(Len(linesA), Len(linesB))
       IN IF Len(linesA) = 0 /\ Len(linesB) = 0 THEN 100
          ELSE IF Len(linesA) = 0 \/ Len(linesB) = 0 THEN 0
          ELSE (200 * matches + maxLines) \div (2 * maxLines)

\* detection.ts:84-95: the two files read, the size check and the threshold.
DetectLoopContent(prevContent, currContent) ==
  LET sizeDiff == Abs(TextLength(prevContent) - TextLength(currContent))
      similarity == TextSimilarity(prevContent, currContent)
  IN IF 5 * sizeDiff > TextLength(prevContent)
       THEN [isLoop |-> FALSE, similarity |-> 0]
       ELSE [isLoop |-> similarity > LoopThreshold, similarity |-> similarity]

\* detection.ts:70-99.  prev is logs/session_{sessionNum-1}_next_prompt.md
\* and curr is NEXT_PROMPT.md, each 0 when the file does not exist.
DetectLoop(prev, curr, sessionNum) ==
  IF sessionNum < 2 THEN FALSE
  ELSE IF prev = 0 \/ curr = 0 THEN FALSE
  ELSE DetectLoopContent(PromptTexts[prev], PromptTexts[curr]).isLoop

\* Two records share no line.
Disjoint(a, b) ==
  LET la == NonBlank(PromptTexts[a])
      lb == NonBlank(PromptTexts[b])
  IN {la[i] : i \in 1..Len(la)} \cap {lb[i] : i \in 1..Len(lb)} = {}

\* detection.ts:17-26 on the modelled PROGRESS.md.
IsComplete(progress) == progress = "complete"

\* relay-loop.ts:85, the condition of the while loop.
LoopContinuesMutant(sc, max) == sc <= max
LoopContinues(sc, max) == sc < max

\* relay-loop.ts:99-110, consecutiveLoops after one detection.
NextLoopsMutant(isLoop, n) == IF isLoop THEN n + 1 ELSE n
NextLoops(isLoop, n) == IF isLoop THEN n + 1 ELSE 0

\* relay-loop.ts:166, consecutiveCrashes after a rate-limited attempt.
CrashesAfterRateLimitMutant(n) == n
CrashesAfterRateLimit(n) == 0

\* relay-loop.ts:307-316, the exit code of the process for each outcome.
ExitCodeOf(kind) ==
  IF kind \in {"complete", "verified_complete"} THEN 0
  ELSE IF kind = "max_sessions" THEN 1
  ELSE 2

Push3(seq, x) == IF Len(seq) < 3 THEN Append(seq, x) ELSE Append(Tail(seq), x)

Finish(kind) ==
  /\ rpc' = "done"
  /\ outcome' = [kind |-> kind, exitCode |-> ExitCodeOf(kind)]

\* The while condition fails: runRelayCore returns maxSessionsReached,
\* runRelayLoop writes status max_sessions and exits with code 1.
IterMaxReached ==
  /\ rpc = "head"
  /\ ~LoopContinues(sessionCount, rcfg.maxSessions)
  /\ Finish("max_sessions")
  /\ statusFile' = "max_sessions"
  /\ UNCHANGED <<rcfg, sessionCount, consecutiveLoops, consecutiveCrashes,
                 progressFile, nextPrompt, archive, rhist, lockVars, runVars, extVars>>

\* relay-loop.ts:86-95: the marker is found at the head of an iteration.
IterComplete ==
  /\ rpc = "head"
  /\ LoopContinues(sessionCount, rcfg.maxSessions)
  /\ IsComplete(progressFile)
  /\ sessionCount' = sessionCount + 1
  /\ Finish("complete")
  /\ statusFile' = "complete"
  /\ UNCHANGED <<rcfg, consecutiveLoops, consecutiveCrashes,
                 progressFile, nextPrompt, archive, rhist, lockVars, runVars, extVars>>

\* The result of detectLoop at the head of the iteration for session sc.
IterDetect(sc) == DetectLoop(IF sc >= 2 THEN archive[sc - 1] ELSE 0, nextPrompt, sc)

NoteDetection(isLoop) ==
  [rhist EXCEPT !.lastDet = Push3(@, isLoop),
                !.everFlagged = @ \/ isLoop]

\* relay-loop.ts:97-105: the third consecutive loop; status stuck, return.
IterStuck ==
  /\ rpc = "head"
  /\ LoopContinues(sessionCount, rcfg.maxSessions)
  /\ ~IsComplete(progressFile)
  /\ LET sc == sessionCount + 1
         isLoop == IterDetect(sc)
         loops == NextLoops(isLoop, consecutiveLoops)
     IN /\ isLoop
        /\ loops >= LoopLimit
        /\ sessionCount' = sc
        /\ consecutiveLoops' = loops
        /\ rhist' = NoteDetection(isLoop)
  /\ Finish("stuck")
  /\ statusFile' = "stuck"
  /\ UNCHANGED <<rcfg, consecutiveCrashes, progressFile, nextPrompt, archive,
                 lockVars, runVars, extVars>>

\* relay-loop.ts:97-138: detection passed, building the prompt throws; the
\* failure counts as a crash, the third in a row ends the relay (without a
\* status write), otherwise `continue`.
IterPromptFail ==
  /\ rpc = "head"
  /\ LoopContinues(sessionCount, rcfg.maxSessions)
  /\ ~IsComplete(progressFile)
  /\ LET sc == sessionCount + 1
         isLoop == IterDetect(sc)
         loops == NextLoops(isLoop, consecutiveLoops)
         crashes == consecutiveCrashes + 1
     IN /\ ~(isLoop /\ loops >= LoopLimit)
        /\ sessionCount' = sc
        /\ consecutiveLoops' = loops
        /\ consecutiveCrashes' = crashes
        /\ rhist' = [NoteDetection(isLoop) EXCEPT
                       !.lastKinds = Push3(@, "crash"),
                       !.counted = @ + 1,
                       !.clean = FALSE,
                       !.afterRateLimit = FALSE]
        /\ IF crashes >= CrashLimit
             THEN Finish("error")
             ELSE rpc' = "head" /\ UNCHANGED outcome
  /\ UNCHANGED <<rcfg, progressFile, nextPrompt, archive, statusFile,
                 lockVars, runVars, extVars>>

\* relay-loop.ts:97-148: detection passed, prompt built, status running,
\* runSession() called.
IterLaunch ==
  /\ rpc = "head"
  /\ LoopContinues(sessionCount, rcfg.maxSessions)
  /\ ~IsComplete(progressFile)
  /\ LET sc == sessionCount + 1
         isLoop == IterDetect(sc)
         loops == NextLoops(isLoop, consecutiveLoops)
     IN /\ ~(isLoop /\ loops >= LoopLimit)
        /\ sessionCount' = sc
        /\ consecutiveLoops' = loops
        /\ rhist' = [NoteDetection(isLoop) EXCEPT
                       !.launched = @ + 1,
                       !.wroteThis = FALSE,
                       !.afterRateLimit = FALSE]
  /\ statusFile' = "running"
  /\ rpc' = "running"
  /\ UNCHANGED <<rcfg, consecutiveCrashes, progressFile, nextPrompt, archive,
                 outcome, lockVars, runVars, extVars>>

\* The agent writes NEXT_PROMPT.md while its session runs.
AgentWriteNext(t) ==
  /\ rpc = "running"
  /\ nextPrompt' = t
  /\ rhist' = [rhist EXCEPT !.wroteThis = TRUE]
  /\ UNCHANGED <<rpc, rcfg, sessionCount, consecutiveLoops, consecutiveCrashes,
                 progressFile, archive, statusFile, outcome, lockVars, runVars, extVars>>

\* The agent writes PROGRESS.md while its session runs, with or without the
\* completion marker in its first lines.
AgentWriteProgress(v) ==
  /\ rpc = "running"
  /\ v \in {"working", "complete"}
  /\ progressFile # v
  /\ progressFile' = v
  /\ rhist' = [rhist EXCEPT !.markerWritten = @ \/ v = "complete"]
  /\ UNCHANGED <<rpc, rcfg, sessionCount, consecutiveLoops, consecutiveCrashes,
                 nextPrompt, archive, statusFile, outcome, lockVars, runVars, extVars>>

\* History of one finished attempt: its kind, and whether the next-task
\* record it left shares no line with the one the attempt before it left.
NoteAttempt(h, kind) ==
  [h EXCEPT
     !.lastKinds = Push3(@, kind),
     !.counted = IF kind = "rl" THEN @ ELSE @ + 1,
     !.rlCount = IF kind = "rl" THEN @ + 1 ELSE @,
     !.clean = @ /\ kind = "ok",
     !.afterRateLimit = (kind = "rl"),
     !.disjointChain = /\ @
                       /\ h.wroteThis
                       /\ nextPrompt # 0
                       /\ (h.prevRecord = 0 \/ Disjoint(nextPrompt, h.prevRecord)),
     !.prevRecord = nextPrompt]

\* relay-loop.ts:149-159: runSession() throws.
SessionThrows ==
  /\ rpc = "running"
  /\ LET crashes == consecutiveCrashes + 1 IN
       /\ consecutiveCrashes' = crashes
       /\ IF crashes >= CrashLimit
            THEN Finish("error") /\ statusFile' = "error"
            ELSE rpc' = "head" /\ UNCHANGED <<outcome, statusFile>>
  /\ rhist' = NoteAttempt(rhist, "crash")
  /\ UNCHANGED <<rcfg, sessionCount, consecutiveLoops, progressFile, nextPrompt,
                 archive, lockVars, runVars, extVars>>

\* relay-loop.ts:162-164: the session reports a rate limit (whatever its exit
\* code); the core waits in handleRateLimit.
SessionRateLimited ==
  /\ rpc = "running"
  /\ rhist.rlCount < MaxRateLimits
  /\ rpc' = "backoff"
  /\ rhist' = NoteAttempt(rhist, "rl")
  /\ UNCHANGED <<rcfg, sessionCount, consecutiveLoops, consecutiveCrashes,
                 progressFile, nextPrompt, archive, statusFile, outcome,
                 lockVars, runVars, extVars>>

\* relay-loop.ts:165-169: the wait is over; the ordinal is given back and
\* the crash count cleared, `continue`.
BackoffDone ==
  /\ rpc = "backoff"
  /\ sessionCount' = sessionCount - 1
  /\ consecutiveCrashes' = CrashesAfterRateLimit(consecutiveCrashes)
  /\ rpc' = "head"
  /\ UNCHANGED <<rcfg, consecutiveLoops, progressFile, nextPrompt, archive,
                 statusFile, outcome, rhist, lockVars, runVars, extVars>>

\* integrations/archive.ts:13-44 for NEXT_PROMPT.md: copied when it exists.
ArchiveSession(arch, n, next) == IF next # 0 THEN [arch EXCEPT ![n] = next] ELSE arch

\* relay-loop.ts:171-232: the session returned without a rate limit: crash
\* counting, verification, archive, second completion check, status paused,
\* and the pause when sessions remain.
SessionEnd(exitCode, verifyPassed) ==
  /\ rpc = "running"
  /\ LET crashes == IF exitCode # 0 THEN consecutiveCrashes + 1 ELSE 0
         kind == IF exitCode # 0 THEN "crash" ELSE "ok"
     IN /\ consecutiveCrashes' = crashes
        /\ rhist' = [NoteAttempt(rhist, kind) EXCEPT
                       !.verifyFailed = @ \/ (rcfg.verify /\ ~verifyPassed)]
        /\ IF exitCode # 0 /\ crashes >= CrashLimit
             THEN /\ Finish("error")
                  /\ statusFile' = "error"
                  /\ UNCHANGED archive
           ELSE IF rcfg.verify /\ verifyPassed
             THEN /\ Finish("verified_complete")
                  /\ statusFile' = "verified_complete"
                  /\ UNCHANGED archive
           ELSE /\ archive' = ArchiveSession(archive, sessionCount, nextPrompt)
                /\ IF IsComplete(progressFile)
                     THEN Finish("complete") /\ statusFile' = "complete"
                     ELSE /\ statusFile' = "paused"
                          /\ rpc' = IF sessionCount < rcfg.maxSessions
                                      THEN "pause" ELSE "head"
                          /\ UNCHANGED outcome
  /\ UNCHANGED <<rcfg, sessionCount, consecutiveLoops, progressFile, nextPrompt,
                 lockVars, runVars, extVars>>

\* relay-loop.ts:229-232: the inter-session pause is over.
PauseDone ==
  /\ rpc = "pause"
  /\ rpc' = "head"
  /\ UNCHANGED <<rcfg, sessionCount, consecutiveLoops, consecutiveCrashes,
                 progressFile, nextPrompt, archive, statusFile, outcome, rhist,
                 lockVars, runVars, extVars>>

\* A fresh relay (startSession 0, no handoff files, empty logs/), or one
\* resumed at a later ordinal over the files and logs of an earlier run.
InitRelay ==
  /\ rpc = "head"
  /\ rcfg \in [maxSessions : 1..MaxSessionsBound,
               startSession : 0..MaxStart,
               verify : BOOLEAN]
  /\ sessionCount = rcfg.startSession
  /\ consecutiveLoops = 0
  /\ consecutiveCrashes = 0
  /\ progressFile = "absent"
  /\ nextPrompt \in IF rcfg.startSession = 0 THEN {0} ELSE {0} \cup TextIds
  /\ archive \in {a \in [1..(MaxSessionsBound + MaxStart) -> {0} \cup TextIds] :
                    \A n \in DOMAIN a : n # rcfg.startSession => a[n] = 0}
  /\ statusFile = "none"
  /\ outcome = [kind |-> "none", exitCode |-> 0 - 1]
  /\ rhist = [launched |-> 0, counted |-> 0, rlCount |-> 0,
              lastDet |-> <<>>, lastKinds |-> <<>>,
              clean |-> TRUE, markerWritten |-> FALSE, everFlagged |-> FALSE,
              afterRateLimit |-> FALSE, verifyFailed |-> FALSE,
              wroteThis |-> FALSE, disjointChain |-> TRUE, prevRecord |-> 0]
  /\ lockFile = NoFile
  /\ acquired = [p \in Procs |-> FALSE]
  /\ IdleLockAux
  /\ IdleRun
  /\ IdleExt

NextRelay ==
  \/ IterMaxReached
  \/ IterComplete
  \/ IterStuck
  \/ IterPromptFail
  \/ IterLaunch
  \/ \E t \in TextIds : AgentWriteNext(t)
  \/ \E v \in {"working", "complete"} : AgentWriteProgress(v)
  \/ SessionThrows
  \/ SessionRateLimited
  \/ BackoffDone
  \/ \E exitCode \in {0, 1}, verifyPassed \in BOOLEAN : SessionEnd(exitCode, verifyPassed)
  \/ PauseDone

SpecRelay == InitRelay /\ [][NextRelay]_vars

----------------------------------------------------------------------------
(* Claims about the relay core.                                            *)

\* A finished run of the kind C6 speaks of: started at session 0, no
\* verification command, every attempt a session that exited with code 0
\* (no rate limit, no prompt-build failure), the marker never written.
C6_Case ==
  /\ rpc = "done"
  /\ rcfg.startSession = 0
  /\ ~rcfg.verify
  /\ rhist.clean
  /\ ~rhist.markerWritten

C6_MaxOutcome ==
  /\ outcome = [kind |-> "max_sessions", exitCode |-> 1]
  /\ statusFile = "max_sessions"
  /\ rhist.launched = rcfg.maxSessions

C7_DisjointRecordsNeverFlagged ==
  (rcfg.startSession = 0 /\ rhist.disjointChain)
    => (~rhist.everFlagged /\ outcome.kind # "stuck")

\* C8: the relay is stopped as stuck (status stuck, relay over) exactly when
\* the last three loop detections were all positive; after a negative
\* detection the consecutive-loop count is zero.
C8_StuckIffThreeConsecutiveLoops ==
  /\ (outcome.kind = "stuck") <=> (rhist.lastDet = <<TRUE, TRUE, TRUE>>)
  /\ (outcome.kind = "stuck") => (statusFile = "stuck" /\ rpc = "done")
  /\ (rhist.lastDet # <<>> /\ ~rhist.lastDet[Len(rhist.lastDet)])
       => consecutiveLoops = 0

\* C8 witness: a relay stopped as stuck after a negative detection and three
\* positive ones.
C8_Witness ==
  /\ outcome.kind = "stuck"
  /\ sessionCount >= 4

C10_RateLimitNeverEndsRelay ==
  /\ (rpc = "head") => (sessionCount = rcfg.startSession + rhist.counted)
  /\ (rpc = "done" /\ rhist.afterRateLimit) => (outcome.kind = "complete")

\* The part of C10 that the code keeps: the session ordinal accounting.
C10_OrdinalAccounting ==
  (rpc = "head") => (sessionCount = rcfg.startSession + rhist.counted)

\* C11: with a verification command that always exits 0, as soon as one
\* counted (not rate-limited) session has ended, however it ended, the
\* relay is over with status verified_complete and no second counted
\* session is launched.
C11_VerifiedAfterFirstAttempt ==
  (rcfg.verify /\ ~rhist.verifyFailed /\ rpc # "running"
     /\ rhist.launched - rhist.rlCount >= 1)
    => /\ rpc = "done"
       /\ outcome.kind = "verified_complete"
       /\ statusFile = "verified_complete"
       /\ rhist.launched - rhist.rlCount = 1

----------------------------------------------------------------------------
(* isComplete (detection.ts:17-26), the completion check of the relay      *)
(* core, on a progress record given as lines of tokens.                    *)

\* Longest run of filler lines put in front of the lines of interest.
MaxPadLines == 10

\* detection.ts:20, slice(0, 10).
HeadLines == 10

CompletionMarkers == {"ALL_COMPLETE", "STAGE_DONE"}

\* String.toLowerCase on the tokens used.
ToLowerCase(tok) ==
  CASE tok = "STATUS:" -> "status:"
    [] tok = "ALL_COMPLETE" -> "all_complete"
    [] tok = "STAGE_DONE" -> "stage_done"
    [] tok = "TASK_FULLY_COMPLETE" -> "task_fully_complete"
    [] tok = "IN_PROGRESS" -> "in_progress"
    [] OTHER -> tok

\* The lines a progress record is made of here.
ProgressLines ==
  { <<"STATUS:", "ALL_COMPLETE">>,
    <<"##", "status:", "all_complete">>,
    <<"STATUS:", "TASK_FULLY_COMPLETE">>,
    <<"STATUS:", "IN_PROGRESS">>,
    <<"then", "set", "STATUS:", "ALL_COMPLETE">>,
    <<"notes">> }

PadLines(n) == [i \in 1..n |-> <<"notes">>]

\* content.split('\n').slice(0, 10)
FirstLines(record) == SubSeq(record, 1, IF Len(record) < HeadLines THEN Len(record) ELSE HeadLines)

\* firstLines.toLowerCase().includes(marker.toLowerCase()); the marker is one
\* token and no other token used here contains it.
IncludesMarker(lines, marker) ==
  \E i \in 1..Len(lines) : \E j \in 1..Len(lines[i]) :
    ToLowerCase(lines[i][j]) = ToLowerCase(marker)

\* detection.ts:17-26; a record of no lines stands for a missing file.
IsCompleteRecord(record, marker) ==
  IF record = <<>> THEN FALSE
  ELSE IncludesMarker(FirstLines(record), marker)

CallIsComplete ==
  /\ cresult = "none"
  /\ cresult' = IF IsCompleteRecord(crecord, cmarker) THEN "true" ELSE "false"
  /\ UNCHANGED <<crecord, cmarker, cready, notComplete>>

\* session.ts:71-75, the prefix [\s#*]* of statusPattern on one line.
RECURSIVE SkipMarkup(_)
SkipMarkup(line) ==
  IF line # <<>> /\ line[1] \in {"##", "**"} THEN SkipMarkup(Tail(line)) ELSE line

\* session.ts:71-76 (and 187-193): statusPattern.test(content), flags im,
\* over the whole file; a record of no lines stands for a missing file.
StatusPatternTest(record, marker) ==
  \E i \in 1..Len(record) :
    LET rest == SkipMarkup(record[i]) IN
      /\ Len(rest) >= 2
      /\ ToLowerCase(rest[1]) = ToLowerCase("STATUS:")
      /\ ToLowerCase(rest[2]) \in {ToLowerCase(marker), ToLowerCase("TASK_FULLY_COMPLETE")}

\* session.ts:68-80: the launcher's poll reads PROGRESS.md and tests it.
PollStatusPattern ==
  /\ cready = "none"
  /\ cready' = IF StatusPatternTest(crecord, cmarker) THEN "true" ELSE "false"
  /\ UNCHANGED <<crecord, cmarker, cresult, notComplete>>

InitComplete ==
  /\ crecord \in {PadLines(n) \o t : n \in 0..MaxPadLines,
                  t \in {<<>>} \cup {<<l>> : l \in ProgressLines}
                         \cup {<<l, m>> : l \in ProgressLines, m \in ProgressLines}}
  /\ cmarker \in CompletionMarkers
  /\ cresult = "none"
  /\ cready = "none"
  /\ lockFile = NoFile
  /\ acquired = [p \in Procs |-> FALSE]
  /\ IdleLockAux
  /\ IdleRun
  /\ IdleRelay
  /\ IdleSess
  /\ IdleDag
  /\ IdlePipe
  /\ IdleKnow
  /\ IdleSim
  /\ IdlePoll
  /\ IdleSig
  /\ IdleStg
  /\ IdleRst
  /\ IdleRl
  /\ IdlePr

NextComplete == CallIsComplete \/ PollStatusPattern

SpecComplete == InitComplete /\ [][NextComplete]_vars

\* What C12 says decides completion: some line of the record, after any
\* leading markdown markers, starts with STATUS: followed by the configured
\* marker or the universal sentinel, compared case-insensitively.
DropMarkdown(line) ==
  IF line # <<>> /\ line[1] \in {"##", "**"} THEN Tail(line) ELSE line

StatusLineDeclares(record, marker) ==
  \E i \in 1..Len(record) :
    LET l == DropMarkdown(record[i]) IN
      /\ Len(l) >= 2
      /\ ToLowerCase(l[1]) = "status:"
      /\ ToLowerCase(l[2]) \in {ToLowerCase(marker), "task_fully_complete"}

\* C12: the relay core's completion check answers true exactly when the
\* progress record has a STATUS: line (anchored, markdown markers allowed)
\* whose value is the configured marker or TASK_FULLY_COMPLETE, compared
\* case-insensitively; prose that mentions the marker does not count.
C12_CompleteIffStatusLine ==
  (cresult # "none") =>
    ((cresult = "true") <=> StatusLineDeclares(crecord, cmarker))

----------------------------------------------------------------------------
(* runSession (session.ts:748-767): one session in print, tui or headless  *)
(* mode, from the spawn of the agent to the return of the SessionResult.   *)

SessionModes == {"print", "tui", "headless"}

\* config.sessionTimeout: 0 (unlimited, accepted by config.ts:228) or the
\* default of config.ts:192.
DefaultSessionTimeout == 1800
TimeoutOptions == {0, DefaultSessionTimeout}

\* Modification times: of .session_start (written by touchSessionStart just
\* before the launch), of a file left by an earlier session, of a write
\* made while or after the session runs.
StartTime == 1
StaleTime == 0
NowTime == 2

\* session.ts:400, size > 50.
MinNextSize == 50
NextSizes == {0, 30, 100}

NoProgress == [exists |-> FALSE, mtime |-> StaleTime, status |-> "none", ordinal |-> FALSE]
NoNext == [exists |-> FALSE, mtime |-> StaleTime, size |-> 0, ordinal |-> FALSE]
NoSignal == [exists |-> FALSE, mtime |-> StaleTime]

\* mtimeMs > sessionStart
Fresh(file) == file.exists /\ file.mtime > StartTime

\* session.ts:64-100, with the configured marker written as status
\* "complete".
IsHandoffReady(f) ==
  IF f.progress.exists /\ f.progress.status = "complete" THEN TRUE
  ELSE IF f.signal.exists THEN f.signal.mtime > StartTime
  ELSE FALSE

\* session.ts:386, the markers the completion pattern of hasValidHandoff names.
RescueMarkers == {"ALL_COMPLETE", "TASK_FULLY_COMPLETE"}

\* session.ts:375-405.  Status "complete" is a STATUS line with the
\* configured marker, which the pattern of line 386 matches only when that
\* marker is one of the two it names.
HasValidHandoff(f) ==
  LET progressFresh == Fresh(f.progress)
      nextExists == f.next.exists /\ f.next.mtime > StartTime /\ f.next.size > MinNextSize
  IN IF progressFresh /\ f.progress.status = "complete" /\ scfg.marker \in RescueMarkers
       THEN [complete |-> TRUE, handedOff |-> TRUE]
     ELSE IF f.signal.exists /\ f.signal.mtime > StartTime
       THEN [complete |-> FALSE, handedOff |-> TRUE]
     ELSE IF progressFresh /\ nextExists
       THEN [complete |-> FALSE, handedOff |-> TRUE]
     ELSE [complete |-> FALSE, handedOff |-> FALSE]

\* session.ts:412-480: the three files are written, the two records naming
\* the session's ordinal.
WriteRescueHandoff(f) ==
  [progress |-> [exists |-> TRUE, mtime |-> NowTime, status |-> "in_progress", ordinal |-> TRUE],
   next |-> [exists |-> TRUE, mtime |-> NowTime, size |-> 100, ordinal |-> TRUE],
   signal |-> [exists |-> TRUE, mtime |-> NowTime]]

\* session.ts:175-226, the poller's decision to terminate the TUI once the
\* observed size of NEXT_PROMPT.md is stable.
PollWouldTerminate(f) ==
  /\ IsHandoffReady(f)
  /\ \/ f.next.exists /\ f.next.size > 0
     \/ f.progress.exists /\ f.progress.status = "complete"

\* The agent writes one of the handoff files.
AgentWrites(f2) ==
  /\ child = "alive"
  /\ f2 # sfiles
  /\ sfiles' = f2
  /\ shist' = [shist EXCEPT !.ready = @ \/ IsHandoffReady(f2)]
  /\ UNCHANGED <<scfg, spc, child, skilled, stools, sres, notSess>>

AgentWritesProgress(st) ==
  AgentWrites([sfiles EXCEPT !.progress =
     [exists |-> TRUE, mtime |-> NowTime, status |-> st, ordinal |-> FALSE]])

AgentWritesNext(sz) ==
  AgentWrites([sfiles EXCEPT !.next =
     [exists |-> TRUE, mtime |-> NowTime, size |-> sz, ordinal |-> FALSE]])

AgentWritesSignal ==
  AgentWrites([sfiles EXCEPT !.signal = [exists |-> TRUE, mtime |-> NowTime]])

\* session.ts:618-631: a tool_use block is seen in the stream (print mode).
AgentToolUse ==
  /\ scfg.mode = "print"
  /\ spc = "running"
  /\ child = "alive"
  /\ ~stools
  /\ stools' = TRUE
  /\ UNCHANGED <<scfg, spc, child, skilled, sfiles, sres, shist, notSess>>

\* The bundle as the handoff invariant defines it: both records modified
\* strictly after the start marker and the next-task record non-empty, or
\* the progress record declaring full completion.
BundleValid(f) ==
  \/ Fresh(f.progress) /\ Fresh(f.next) /\ f.next.size > 0
  \/ f.progress.exists /\ f.progress.status = "complete"

\* session.ts:713-741: what runPrintSession does once it no longer waits for
\* the child: rate-limit signatures, then the rescue handoff.  exitCode is
\* result.exitCode at that point, sig where a rate-limit signature is found
\* ("none", "stderr", "text"), alive whether the child still runs.
PrintFinish(exitCode, sig, alive) ==
  LET rl1 == sres.rateLimited \/ (~alive /\ sig = "stderr")
      rl2 == rl1 \/ (exitCode # 0 /\ ~skilled /\ sig # "none")
      handoff == HasValidHandoff(sfiles)
      checked == ~rl2 /\ stools
      rescue == checked /\ ~handoff.complete /\ ~handoff.handedOff
  IN /\ sres' = [exitCode |-> IF rescue THEN 0 ELSE exitCode, rateLimited |-> rl2]
     /\ sfiles' = IF rescue THEN WriteRescueHandoff(sfiles) ELSE sfiles
     /\ shist' = [shist EXCEPT
                    !.checked = checked,
                    !.handedOff = checked /\ handoff.handedOff,
                    !.filesAtEnd = sfiles,
                    !.endedAlive = alive,
                    !.selfExited = @ \/ (~alive /\ ~skilled),
                    !.wroteWhileAlive = @ \/ (rescue /\ alive)]
     /\ spc' = "returned"

\* session.ts:653-661 (print) and 347-353 (headless): the stream reports a
\* rate limit.  Print mode notes it and reads on; headless mode breaks out
\* of the message loop and returns.
RateLimitEvent ==
  /\ spc = "running"
  /\ child = "alive"
  /\ scfg.mode \in {"print", "headless"}
  /\ ~sres.rateLimited
  /\ sres' = [sres EXCEPT !.rateLimited = TRUE]
  /\ IF scfg.mode = "headless"
       THEN spc' = "returned" /\ child' = "exited"
       ELSE UNCHANGED <<spc, child>>
  /\ UNCHANGED <<scfg, skilled, stools, sfiles, shist, notSess>>

\* session.ts:583-680 and 707-712: handling a stream event throws (a text
\* block without text, a result event whose cost is not a number); the
\* catch block sets exit code 1 and the function goes on without waiting
\* for the child.
StreamEventThrows(sig) ==
  /\ scfg.mode = "print"
  /\ spc = "running"
  /\ child = "alive"
  /\ sig \in {"none", "text"}
  /\ PrintFinish(1, sig, TRUE)
  /\ UNCHANGED <<scfg, child, skilled, stools, notSess>>

\* The child process ends with exit code `code`.  heard: in print mode the
\* 'exit' listener is registered only after the stdout loop has ended
\* (session.ts:682-693); the event is heard when the end of stdout is
\* handled before it, and lost otherwise.
ChildEnds(code, heard, sig) ==
  /\ child = "alive"
  /\ child' = "exited"
  /\ IF spc # "running"
       THEN /\ shist' = [shist EXCEPT !.selfExited = @ \/ ~skilled]
            /\ UNCHANGED <<spc, sres, sfiles>>
     ELSE IF scfg.mode = "tui"
       THEN \* session.ts:245-285
            LET ec == IF skilled THEN 0 ELSE code IN
              /\ sres' = [exitCode |-> ec,
                          rateLimited |-> ec # 0 /\ ~skilled
                                            /\ ~Fresh(sfiles.progress) /\ sig = "text"]
              /\ spc' = "returned"
              /\ shist' = [shist EXCEPT !.selfExited = ~skilled]
              /\ UNCHANGED sfiles
     ELSE IF scfg.mode = "headless"
       THEN \* session.ts:339-369
            /\ sres' = IF code = 0 THEN sres
                       ELSE IF sig # "none" THEN [sres EXCEPT !.rateLimited = TRUE]
                       ELSE [sres EXCEPT !.exitCode = 1]
            /\ spc' = "returned"
            /\ shist' = [shist EXCEPT !.selfExited = ~skilled]
            /\ UNCHANGED sfiles
     ELSE IF heard
       THEN PrintFinish(IF skilled THEN 0 ELSE code, sig, FALSE)
       ELSE /\ spc' = "hung"
            /\ shist' = [shist EXCEPT !.selfExited = ~skilled]
            /\ UNCHANGED <<sres, sfiles>>
  /\ UNCHANGED <<scfg, skilled, stools, notSess>>

\* The agent exits on its own.
ChildExitsOnOwn(code, heard, sig) ==
  /\ ~skilled
  /\ ChildEnds(code, heard, sig)

\* The child dies of the SIGTERM the launcher sent.
ChildTerminated(heard, sig) ==
  /\ skilled
  /\ scfg.mode \in {"print", "tui"}
  /\ ChildEnds(1, heard, sig)

\* session.ts:175-226: the poller finds the handoff ready and stable, sets
\* killedByRelay and sends SIGTERM.
TuiPollTerminates ==
  /\ scfg.mode = "tui"
  /\ spc = "running"
  /\ child = "alive"
  /\ ~skilled
  /\ PollWouldTerminate(sfiles)
  /\ skilled' = TRUE
  /\ UNCHANGED <<scfg, spc, child, stools, sfiles, sres, shist, notSess>>

\* session.ts:231-243 and 564-573: the session timeout elapses; only armed
\* when config.sessionTimeout > 0, and only in tui and print mode.
TimeoutFires ==
  /\ scfg.mode \in {"print", "tui"}
  /\ scfg.timeout > 0
  /\ spc \in {"running", "hung"}
  /\ ~skilled
  /\ skilled' = TRUE
  /\ shist' = [shist EXCEPT !.timedOut = TRUE]
  /\ UNCHANGED <<scfg, spc, child, stools, sfiles, sres, notSess>>

\* Just after touchSessionStart (state/files.ts:279-284): the signal file is
\* removed, the records of an earlier session may be there.
InitSession ==
  /\ scfg \in [mode : SessionModes, timeout : TimeoutOptions, marker : CompletionMarkers]
  /\ spc = "running"
  /\ child = "alive"
  /\ skilled = FALSE
  /\ stools = FALSE
  /\ sfiles \in [progress : {NoProgress,
                             [exists |-> TRUE, mtime |-> StaleTime,
                              status |-> "in_progress", ordinal |-> FALSE]},
                 next : {NoNext,
                         [exists |-> TRUE, mtime |-> StaleTime,
                          size |-> 100, ordinal |-> FALSE]},
                 signal : {NoSignal}]
  /\ sres = [exitCode |-> 0, rateLimited |-> FALSE]
  /\ shist = [ready |-> FALSE, checked |-> FALSE, handedOff |-> FALSE,
              filesAtEnd |-> sfiles, endedAlive |-> FALSE,
              wroteWhileAlive |-> FALSE, timedOut |-> FALSE,
              selfExited |-> FALSE]
  /\ lockFile = NoFile
  /\ acquired = [p \in Procs |-> FALSE]
  /\ IdleLockAux
  /\ IdleRun
  /\ IdleRelay
  /\ IdleComplete
  /\ IdleDag
  /\ IdlePipe
  /\ IdleKnow
  /\ IdleSim
  /\ IdlePoll
  /\ IdleSig
  /\ IdleStg
  /\ IdleRst
  /\ IdleRl
  /\ IdlePr

NextSession ==
  \/ \E st \in {"in_progress", "complete"} : AgentWritesProgress(st)
  \/ \E sz \in NextSizes : AgentWritesNext(sz)
  \/ AgentWritesSignal
  \/ AgentToolUse
  \/ RateLimitEvent
  \/ \E sig \in {"none", "text"} : StreamEventThrows(sig)
  \/ \E code \in {0, 1}, heard \in BOOLEAN, sig \in {"none", "stderr", "text"} :
       ChildExitsOnOwn(code, heard, sig)
  \/ \E heard \in BOOLEAN, sig \in {"none", "stderr", "text"} : ChildTerminated(heard, sig)
  \/ TuiPollTerminates
  \/ TimeoutFires

SpecSession == InitSession /\ [][NextSession]_vars

\* The same with the scheduling the runtime guarantees: an armed timer
\* fires, a child that was sent SIGTERM dies.
SpecSessionLive ==
  /\ SpecSession
  /\ WF_vars(TimeoutFires)
  /\ WF_vars(\E heard \in BOOLEAN, sig \in {"none", "stderr", "text"} :
               ChildTerminated(heard, sig))

\* C13: the launcher classifies a session as having handed off validly only
\* if both records were modified strictly after the start marker and the
\* next-task record is non-empty, or the progress record declares full
\* completion.  Violated: a fresh handoff-signal file alone is classified
\* as a handoff.
C13_HandedOffOnlyIfBundleValid ==
  shist.handedOff => BundleValid(shist.filesAtEnd)

\* C14: a session that recorded a tool use, was not rate-limited and exited
\* without a valid bundle leaves, once the launcher has returned, a progress
\* record and a next-task record that exist, are fresh, non-empty and name
\* the session's ordinal.  Violated: with a fresh signal file alone no
\* rescue handoff is written.
C14_RescueLeavesFreshRecords ==
  (spc = "returned" /\ child = "exited" /\ ~shist.endedAlive
     /\ stools /\ ~sres.rateLimited /\ ~BundleValid(shist.filesAtEnd))
    => /\ Fresh(sfiles.progress) /\ sfiles.progress.ordinal
       /\ Fresh(sfiles.next) /\ sfiles.next.size > 0 /\ sfiles.next.ordinal

\* C15: a session that ended because the launcher terminated it is reported
\* with exit code 0 and rateLimited = false.  Violated: print mode keeps a
\* rate limit seen in the stream or on stderr when the timeout kills the
\* child.
C15_TerminatedBySelfIsSuccess ==
  (spc = "returned" /\ skilled /\ ~shist.endedAlive /\ ~shist.selfExited)
    => (sres.exitCode = 0 /\ ~sres.rateLimited)

\* C16: under SpecSessionLive, a session whose agent never signals
\* readiness and never exits on its own eventually returns.  Violated: no
\* timer in headless mode, none with sessionTimeout = 0, and a lost exit
\* event in print mode.
C16_SessionEventuallyReturns ==
  <>(spc = "returned" \/ shist.ready \/ shist.selfExited)

\* C17: the launcher never writes a handoff file while the agent subprocess
\* is alive.  Violated: the rescue handoff written after the stream loop
\* threw.
C17_NoWriteWhileChildAlive ==
  ~shist.wroteWhileAlive

----------------------------------------------------------------------------
(* loadPipelineConfig and validateDag (pipeline-config.ts:101-155): the    *)
(* checks made on the requires lists of a stage list.                      *)

DagMaxStages == 3
StageNames == {"a", "b", "c"}

\* The stage lists of a configuration file: every stage has a name and a
\* requires list; nothing makes the names distinct.
StageLists ==
  UNION {[1..n -> [name : StageNames, requires : SUBSET StageNames]] : n \in 1..DagMaxStages}

NamesOf(stages) == {stages[i].name : i \in DOMAIN stages}

\* stageMap.get(name)?.requires: the Map keeps the last stage set under a
\* name.
RequiresOf(stages, name) ==
  IF name \in NamesOf(stages)
    THEN LET last == CHOOSE i \in DOMAIN stages :
                       /\ stages[i].name = name
                       /\ \A j \in DOMAIN stages : stages[j].name = name => j <= i
         IN stages[last].requires
    ELSE {}

RECURSIVE Visit(_, _, _, _)
RECURSIVE VisitDeps(_, _, _, _)

\* visit(name, trail) of validateDag; ok = FALSE stands for the throw.
Visit(stages, name, visiting, visited) ==
  IF name \in visiting THEN [ok |-> FALSE, visited |-> visited]
  ELSE IF name \in visited THEN [ok |-> TRUE, visited |-> visited]
  ELSE LET r == VisitDeps(stages, RequiresOf(stages, name), visiting \cup {name}, visited)
       IN IF r.ok THEN [ok |-> TRUE, visited |-> r.visited \cup {name}] ELSE r

\* the loop over stage.requires inside visit
VisitDeps(stages, deps, visiting, visited) ==
  IF deps = {} THEN [ok |-> TRUE, visited |-> visited]
  ELSE LET dep == CHOOSE d \in deps : TRUE
           r == Visit(stages, dep, visiting, visited)
       IN IF r.ok THEN VisitDeps(stages, deps \ {dep}, visiting, r.visited) ELSE r

RECURSIVE VisitStages(_, _, _)
\* the loop `for (const stage of stages) visit(stage.name, [])`
VisitStages(stages, i, visited) ==
  IF i > Len(stages) THEN TRUE
  ELSE LET r == Visit(stages, stages[i].name, {}, visited)
       IN IF r.ok THEN VisitStages(stages, i + 1, r.visited) ELSE FALSE

\* TRUE when validateDag returns, FALSE when it throws.
ValidateDag(stages) == VisitStages(stages, 1, {})

\* pipeline-config.ts:101-114: validateDag, then every dependency must name
\* a stage.
LoadPipelineConfig(stages) ==
  IF ~ValidateDag(stages) THEN "rejected"
  ELSE IF \E i \in DOMAIN stages : \E dep \in stages[i].requires : dep \notin NamesOf(stages)
    THEN "rejected"
  ELSE "accepted"

CallLoadPipelineConfig ==
  /\ vresult = "none"
  /\ vresult' = LoadPipelineConfig(vstages)
  /\ UNCHANGED <<vstages, notDag>>

InitDag ==
  /\ vstages \in StageLists
  /\ vresult = "none"
  /\ lockFile = NoFile
  /\ acquired = [p \in Procs |-> FALSE]
  /\ IdleLockAux
  /\ IdleRun
  /\ IdleRelay
  /\ IdleComplete
  /\ IdleSess
  /\ IdlePipe
  /\ IdleKnow
  /\ IdleSim
  /\ IdlePoll
  /\ IdleSig
  /\ IdleStg
  /\ IdleRst
  /\ IdleRl
  /\ IdlePr

NextDag == CallLoadPipelineConfig

SpecDag == InitDag /\ [][NextDag]_vars

\* The requires-relation of a stage list, on stage names.
RequiresRelation(stages) ==
  UNION {{<<stages[i].name, dep>> : dep \in stages[i].requires} : i \in DOMAIN stages}

RECURSIVE ReachableFrom(_, _)
ReachableFrom(S, R) ==
  LET T == S \cup {e[2] : e \in {e \in R : e[1] \in S}}
  IN IF T = S THEN S ELSE ReachableFrom(T, R)

HasCycle(stages) ==
  LET R == RequiresRelation(stages)
  IN \E e \in R : e[1] \in ReachableFrom({e[2]}, R)

NamesMissingStage(stages) ==
  \E i \in DOMAIN stages : \E dep \in stages[i].requires : dep \notin NamesOf(stages)

\* C18: the stage list is rejected if and only if its requires-relation has
\* a cycle or names a stage that does not exist.  Violated: when two stages
\* carry the same name, only the requires list of the last one is
\* traversed, and a cycle through the earlier one is accepted.
C18_RejectedIffCycleOrMissing ==
  (vresult # "none")
    => ((vresult = "rejected") <=> (HasCycle(vstages) \/ NamesMissingStage(vstages)))

\* C18 on stage lists whose names are pairwise distinct.
C18_DistinctNames ==
  (vresult # "none" /\ Cardinality(NamesOf(vstages)) = Len(vstages))
    => ((vresult = "rejected") <=> (HasCycle(vstages) \/ NamesMissingStage(vstages)))

----------------------------------------------------------------------------
(* runPipelineLoop (pipeline-loop.ts:28-242): the loop over the stages of  *)
(* a pipeline that loadPipelineConfig accepted.                            *)

\* Stages are named by their position in the declared order.
PipeStageIds == 1..3
NumPipeStages == Cardinality(PipeStageIds)
OnFailPolicies == {"stop", "retry", "skip"}
\* stage.retryMax of the stages whose policy is retry
RetryMax == 2

\* 0 stands for an option that was not given.
NoStage == 0

\* The pipelines the loader accepts.
Pipelines ==
  {st \in [PipeStageIds -> [name : PipeStageIds, requires : SUBSET PipeStageIds,
                            onFail : OnFailPolicies]] :
     /\ \A i \in PipeStageIds : st[i].name = i
     /\ LoadPipelineConfig(st) = "accepted"}

\* pipeline-loop.ts:39-52: the state of an earlier run is used only when
\* --resume-stage is given; otherwise initPipelineDir makes every stage
\* pending.
FreshState == [i \in PipeStageIds |-> "pending"]
ExistingStates == [PipeStageIds -> {"pending", "complete", "skipped"}]

\* pipeline-loop.ts:139-143
UnmetDepsMutant(i) ==
  {dep \in pcfg.stages[i].requires : pstate[dep] \notin {"complete", "skipped", "pending"}}
UnmetDeps(i) ==
  {dep \in pcfg.stages[i].requires : pstate[dep] \notin {"complete", "skipped"}}

\* pipeline-loop.ts:133
AlreadyCompleteMutant(i) == FALSE
AlreadyComplete(i) == pstate[i] = "complete"

\* savePipelineState (state/files.ts:399-402): the record on disk after the
\* call.
SavePipelineStateMutant(disk, state) == disk
SavePipelineState(disk, state) == state

\* pipeline-loop.ts:161
MaxAttempts(i) == IF pcfg.stages[i].onFail = "retry" THEN RetryMax ELSE 1

AtStage(i) ==
  /\ prun.pc = "loop"
  /\ prun.idx = i
  /\ i \in PipeStageIds

NextStage == [prun EXCEPT !.idx = @ + 1, !.attempt = 0]

\* pipeline-loop.ts:124-130: the stage is named by --skip-stage.
StageSkipOption(i) ==
  /\ AtStage(i)
  /\ pcfg.skip = i
  /\ pstate' = [pstate EXCEPT ![i] = "skipped"]
  /\ psaved' = SavePipelineState(psaved, pstate')
  /\ prun' = NextStage
  /\ UNCHANGED <<pcfg, plog, notPipe>>

\* pipeline-loop.ts:132-136: the stage is already complete.
StageAlreadyComplete(i) ==
  /\ AtStage(i)
  /\ pcfg.skip # i
  /\ AlreadyComplete(i)
  /\ prun' = NextStage
  /\ UNCHANGED <<pcfg, pstate, psaved, plog, notPipe>>

\* pipeline-loop.ts:138-158: a required stage is neither complete nor
\* skipped.
StageDepsUnmet(i) ==
  /\ AtStage(i)
  /\ pcfg.skip # i
  /\ ~AlreadyComplete(i)
  /\ UnmetDeps(i) # {}
  /\ IF pcfg.stages[i].onFail = "skip"
       THEN /\ pstate' = [pstate EXCEPT ![i] = "skipped"]
            /\ prun' = NextStage
       ELSE /\ pstate' = [pstate EXCEPT ![i] = "failed"]
            /\ prun' = [prun EXCEPT !.pc = "exited", !.exitCode = 1]
  /\ psaved' = SavePipelineState(psaved, pstate')
  /\ UNCHANGED <<pcfg, plog, notPipe>>

\* pipeline-loop.ts:160-173 and runStage 246-265: the first attempt of the
\* stage is launched.
StageLaunch(i) ==
  /\ AtStage(i)
  /\ pcfg.skip # i
  /\ ~AlreadyComplete(i)
  /\ UnmetDeps(i) = {}
  /\ pstate' = [pstate EXCEPT ![i] = "in_progress"]
  /\ psaved' = SavePipelineState(psaved, pstate')
  /\ prun' = [prun EXCEPT !.pc = "running", !.attempt = 1]
  /\ plog' = Append(plog, i)
  /\ UNCHANGED <<pcfg, notPipe>>

\* pipeline-loop.ts:175-222: runStage returned (or threw: not completed).
StageResult(completed) ==
  /\ prun.pc = "running"
  /\ LET i == prun.idx IN
       IF completed
         THEN /\ pstate' = [pstate EXCEPT ![i] = "complete"]
              /\ prun' = [NextStage EXCEPT !.pc = "loop"]
              /\ UNCHANGED plog
       ELSE IF prun.attempt < MaxAttempts(i)
         THEN /\ prun' = [prun EXCEPT !.attempt = @ + 1]
              /\ pstate' = [pstate EXCEPT ![i] = "in_progress"]
              /\ plog' = Append(plog, i)
       ELSE IF pcfg.stages[i].onFail = "skip"
         THEN /\ pstate' = [pstate EXCEPT ![i] = "skipped"]
              /\ prun' = [NextStage EXCEPT !.pc = "loop"]
              /\ UNCHANGED plog
       ELSE /\ pstate' = [pstate EXCEPT ![i] = "failed"]
            /\ prun' = [prun EXCEPT !.pc = "exited", !.exitCode = 1]
            /\ UNCHANGED plog
  /\ psaved' = SavePipelineState(psaved, pstate')
  /\ UNCHANGED <<pcfg, notPipe>>

\* pipeline-loop.ts:225-241: the loop has run past the last stage.
PipelineComplete ==
  /\ prun.pc = "loop"
  /\ prun.idx > NumPipeStages
  /\ prun' = [prun EXCEPT !.pc = "done"]
  /\ psaved' = SavePipelineState(psaved, pstate)
  /\ UNCHANGED <<pcfg, pstate, plog, notPipe>>

\* pipeline-loop.ts:90-91: SIGINT or SIGTERM is handled while the loop awaits
\* runStage; cleanup releases the lock and the process exits.
PipeInterrupt(code) ==
  /\ prun.pc = "running"
  /\ prun' = [prun EXCEPT !.pc = "interrupted", !.exitCode = code]
  /\ UNCHANGED <<pcfg, pstate, psaved, plog, notPipe>>

\* pipeline-loop.ts:36-117, up to the first iteration of the loop.
InitPipe ==
  /\ pcfg \in [stages : Pipelines,
               resume : PipeStageIds \cup {NoStage},
               skip : PipeStageIds \cup {NoStage},
               existing : ExistingStates]
  /\ pcfg.resume = NoStage => pcfg.existing = FreshState
  /\ pstate = pcfg.existing
  /\ psaved = pstate
  /\ prun = [pc |-> "loop",
             idx |-> IF pcfg.resume = NoStage THEN 1 ELSE pcfg.resume,
             attempt |-> 0, exitCode |-> 0]
  /\ plog = <<>>
  /\ lockFile = NoFile
  /\ acquired = [p \in Procs |-> FALSE]
  /\ IdleLockAux
  /\ IdleRun
  /\ IdleRelay
  /\ IdleComplete
  /\ IdleSess
  /\ IdleDag
  /\ IdleKnow
  /\ IdleSim
  /\ IdlePoll
  /\ IdleSig
  /\ IdleStg
  /\ IdleRst
  /\ IdleRl
  /\ IdlePr

NextPipe ==
  \/ \E i \in PipeStageIds : StageSkipOption(i)
  \/ \E i \in PipeStageIds : StageAlreadyComplete(i)
  \/ \E i \in PipeStageIds : StageDepsUnmet(i)
  \/ \E i \in PipeStageIds : StageLaunch(i)
  \/ \E completed \in BOOLEAN : StageResult(completed)
  \/ PipelineComplete
  \/ \E code \in {130, 143} : PipeInterrupt(code)

SpecPipe == InitPipe /\ [][NextPipe]_vars

Launched == {plog[k] : k \in DOMAIN plog}

\* A required stage that is recorded neither complete nor skipped.
HasUnmetRequirement(i) ==
  \E dep \in pcfg.stages[i].requires : pstate[dep] # "complete" /\ pstate[dep] # "skipped"

C20_LaunchedInDeclaredOrder ==
  (prun # <<>>) =>
    /\ \A k, l \in DOMAIN plog :
         k < l => \/ plog[k] < plog[l]
                  \/ /\ plog[k] = plog[l]
                     /\ pcfg.stages[plog[k]].onFail = "retry"
                     /\ \A m \in k..l : plog[m] = plog[k]
    /\ \A k \in DOMAIN plog :
         /\ plog[k] # pcfg.skip
         /\ pcfg.existing[plog[k]] # "complete"

\* C20 witness: two different stages were launched in a resumed run that
\* passed over a stage recorded complete, and a stage was retried.
C20_Witness ==
  /\ prun # <<>>
  /\ pcfg.resume # NoStage
  /\ \E k, l \in DOMAIN plog : plog[k] < plog[l]
  /\ \E k \in DOMAIN plog : k + 1 \in DOMAIN plog /\ plog[k] = plog[k + 1]
  /\ \E i \in PipeStageIds :
       pcfg.resume <= i /\ i < prun.idx /\ pcfg.existing[i] = "complete"

\* Number of times the relay of stage i was launched.
LaunchCount(i) == Cardinality({k \in DOMAIN plog : plog[k] = i})

\* C21: a stage with policy retry and cap R whose relay fails on every
\* attempt gets R re-attempts after its first run before it is recorded
\* failed; a stage with policy stop or skip is run at most once.  Violated:
\* the cap bounds the attempts, first run included, so the stage gets R - 1
\* re-attempts.
C21_RetriedUpToCap ==
  (prun # <<>>) =>
    \A i \in PipeStageIds :
      /\ pcfg.stages[i].onFail # "retry" => LaunchCount(i) <= 1
      /\ (pcfg.stages[i].onFail = "retry" /\ i \in Launched /\ pstate[i] = "failed")
           => LaunchCount(i) = 1 + RetryMax

\* C21, the part on the stages that are not retried.
C21_StopAndSkipRunOnce ==
  (prun # <<>>) =>
    \A i \in PipeStageIds : pcfg.stages[i].onFail # "retry" => LaunchCount(i) <= 1

\* C22: every change of a stage's status is in the persisted record before
\* the next stage action: the record equals the state in memory whenever
\* the loop is between two actions, and while (or when interrupted while)
\* stage S runs it shows S as in_progress and every other stage with the
\* status it had reached.
C22_PersistedBeforeNextAction ==
  (prun # <<>>) =>
    /\ psaved = pstate
    /\ prun.pc \in {"running", "interrupted"}
         => /\ psaved[prun.idx] = "in_progress"
            /\ \A j \in PipeStageIds :
                 j \in Launched \ {prun.idx} => psaved[j] \in {"complete", "skipped"}

\* C22 witness: the process was interrupted while a stage ran after an
\* earlier stage had completed.
C22_Witness ==
  /\ prun # <<>>
  /\ prun.pc = "interrupted"
  /\ \E j \in PipeStageIds : j < prun.idx /\ j \in Launched /\ psaved[j] = "complete"

\* C23: whenever the relay stops for a fatal reason (third consecutive loop,
\* crash, session error or prompt-build failure) the status record names a
\* terminal failure status and the exit code is not 0.  Violated: the third
\* consecutive prompt-build failure returns without writing the status.
C23_FatalStopWritesTerminalStatus ==
  (rpc = "done" /\ outcome.kind \in {"stuck", "error"})
    => /\ statusFile \in {"stuck", "error"}
       /\ outcome.exitCode # 0

----------------------------------------------------------------------------
(* compactKnowledge (state/knowledge.ts:15-66), on KNOWLEDGE.md as the     *)
(* sequence of its lines.                                                  *)

MaxEntries == 4
MaxKeep == 3

\* The lines of a knowledge base: "e<n>" is the heading `### Session n`,
\* "n<n>" a line of notes of that entry.
EntryHeading(n) == <<"e1", "e2", "e3", "e4", "e5", "e6">>[n]
EntryNotes(n) == <<"n1", "n2", "n3", "n4", "n5", "n6">>[n]
EntryHeadings == {EntryHeading(n) : n \in 1..(MaxEntries + 1)}

\* l.startsWith('### Session')
StartsWithSession(l) == l \in EntryHeadings
\* l.startsWith('## Session Log')
StartsWithLogHeader(l) == l = "log"

RECURSIVE EntriesText(_, _)
\* The entries n..1 written out, entry i with its notes when i \in noted.
EntriesText(n, noted) ==
  IF n = 0 THEN <<>>
  ELSE EntriesText(n - 1, noted) \o
       (IF n \in noted THEN <<EntryHeading(n), EntryNotes(n)>> ELSE <<EntryHeading(n)>>)

\* The files: the boilerplate of initRelayDir (state/files.ts:51-63) with
\* what the sessions made of it: core lines, the description line under
\* the log header kept or not, the entries appended.
KnowledgeFiles ==
  {<<"title", "blank", "core">> \o c \o <<"log">> \o d \o EntriesText(n, noted) :
     c \in {<<>>, <<"c1">>, <<"c1", "blank">>},
     d \in {<<>>, <<"desc">>, <<"desc", "blank">>},
     n \in 0..MaxEntries,
     noted \in SUBSET (1..MaxEntries)}

Slice(seq, from, to) == SubSeq(seq, from, IF to > Len(seq) THEN Len(seq) ELSE to)

\* lines.findIndex(...) + 1, 0 when there is none
\* of the callback's answers on the lines, in order.
FindIndex(hits) ==
  IF \E i \in DOMAIN hits : hits[i]
    THEN CHOOSE i \in DOMAIN hits : hits[i] /\ \A j \in 1..(i - 1) : ~hits[j]
    ELSE 0

\* l => l.startsWith('## Session Log') applied to every line.
LogHeaderHits(lines) == [i \in DOMAIN lines |-> StartsWithLogHeader(lines[i])]

\* state/knowledge.ts:15-66: the lines of the file after the call.
CompactKnowledge(lines, keepSessions) ==
  LET entryCount == Cardinality({i \in DOMAIN lines : StartsWithSession(lines[i])})
      logHeaderIndex == FindIndex(LogHeaderHits(lines))
      headerSection == Slice(lines, 1, logHeaderIndex + 1)
      logSection == Slice(lines, logHeaderIndex + 2, Len(lines))
      entryStarts == {i \in DOMAIN logSection : StartsWithSession(logSection[i])}
      entriesToKeep == {i \in entryStarts :
                          Cardinality({j \in entryStarts : j >= i}) <= keepSessions}
      first == CHOOSE i \in entriesToKeep : \A j \in entriesToKeep : i <= j
  IN IF entryCount <= keepSessions THEN lines
     ELSE IF logHeaderIndex = 0 THEN lines
     ELSE IF entriesToKeep = {} THEN lines
     ELSE headerSection \o Slice(logSection, first, Len(logSection))

\* relay-loop.ts:112-120: the compaction at the head of an iteration.
CallCompactKnowledge ==
  /\ khist.calls < 2
  /\ kfile' = CompactKnowledge(kfile, kkeep)
  /\ khist' = [khist EXCEPT !.calls = @ + 1,
                            !.first = IF khist.calls = 0 THEN kfile' ELSE @]
  /\ UNCHANGED <<kkeep, notKnow>>

InitKnow ==
  /\ kfile \in KnowledgeFiles
  /\ kkeep \in 1..MaxKeep
  /\ khist = [original |-> kfile, first |-> <<>>, calls |-> 0]
  /\ lockFile = NoFile
  /\ acquired = [p \in Procs |-> FALSE]
  /\ IdleLockAux
  /\ IdleRun
  /\ IdleRelay
  /\ IdleComplete
  /\ IdleSess
  /\ IdleDag
  /\ IdlePipe
  /\ IdleSim
  /\ IdlePoll
  /\ IdleSig
  /\ IdleStg
  /\ IdleRst
  /\ IdleRl
  /\ IdlePr

NextKnow == CallCompactKnowledge

SpecKnow == InitKnow /\ [][NextKnow]_vars

\* The rolling log of a file: the entry headings below the log header.
RECURSIVE SelectSeq2(_, _)
SelectSeq2(seq, keepIt) ==
  IF seq = <<>> THEN <<>>
  ELSE (IF Head(seq) \in keepIt THEN <<Head(seq)>> ELSE <<>>) \o SelectSeq2(Tail(seq), keepIt)

LogEntries(lines) ==
  LET h == FindIndex(LogHeaderHits(lines))
  IN SelectSeq2(SubSeq(lines, h + 1, Len(lines)), EntryHeadings)

\* The core subsection: the lines from the core header up to the log header.
CoreSection(lines) ==
  LET h == FindIndex(LogHeaderHits(lines))
  IN SubSeq(lines, 1, h - 1)

LastK(seq, k) == SubSeq(seq, Len(seq) - k + 1, Len(seq))

\* C24: when the rolling log has N > K entries, compaction leaves exactly
\* the last K log entries and the core subsection as it was, and a second
\* compaction changes nothing.  Violated: the line under the log header is
\* always kept, so when the first entry stands directly under the header
\* its heading survives and K + 1 headings remain.
C24_CompactionKeepsLastK ==
  (khist # <<>> /\ khist.calls >= 1 /\ Len(LogEntries(khist.original)) > kkeep)
    => /\ LogEntries(khist.first) = LastK(LogEntries(khist.original), kkeep)
       /\ CoreSection(khist.first) = CoreSection(khist.original)
       /\ khist.calls = 2 => kfile = khist.first

\* C24 on the files that keep a description line under the log header.
C24_WithDescriptionLine ==
  (khist # <<>> /\ khist.calls >= 1 /\ Len(LogEntries(khist.original)) > kkeep
     /\ ~StartsWithSession(khist.original[FindIndex(LogHeaderHits(khist.original)) + 1]))
    => /\ LogEntries(khist.first) = LastK(LogEntries(khist.original), kkeep)
       /\ CoreSection(khist.first) = CoreSection(khist.original)
       /\ khist.calls = 2 => kfile = khist.first

----------------------------------------------------------------------------
(* detectLoop and textSimilarity (detection.ts:43-99) on pairs of texts.   *)

BigLines == 20
SmallLines == 2

\* A previous text of BigLines distinct lines, and current texts of n lines
\* that share the first m of them.
BigPrev == [i \in 1..BigLines |-> <<i, 10>>]
BigCurr(m, n) == [i \in 1..n |-> IF i <= m THEN <<i, 10>> ELSE <<100 + i, 10>>]
BigPairs ==
  {<<BigPrev, BigCurr(m, n)>> : m \in 0..BigLines, n \in BigLines..(BigLines + 6)}

\* Short texts, blank and repeated lines included.
SmallTexts ==
  UNION {[1..n -> {<<1, 10>>, <<2, 10>>, <<0, 0>>}] : n \in 1..SmallLines}
SmallPairs == SmallTexts \X SmallTexts

\* detection.ts:70-99 with both files present and sessionNum >= 2.
CallDetectLoop ==
  /\ ~dres.loopCalled
  /\ dres' = [dres EXCEPT !.loopCalled = TRUE,
                           !.loop = DetectLoopContent(dprev, dcurr)]
  /\ UNCHANGED <<dprev, dcurr, notSim>>

\* detection.ts:43-63, called with the two texts in both orders.
CallTextSimilarity ==
  /\ ~dres.simCalled
  /\ dres' = [dres EXCEPT !.simCalled = TRUE,
                           !.swapped = [ab |-> TextSimilarity(dprev, dcurr),
                                        ba |-> TextSimilarity(dcurr, dprev)]]
  /\ UNCHANGED <<dprev, dcurr, notSim>>

InitSim ==
  /\ \E pair \in BigPairs \cup SmallPairs : dprev = pair[1] /\ dcurr = pair[2]
  /\ dres = [loopCalled |-> FALSE, loop |-> [isLoop |-> FALSE, similarity |-> 0],
             simCalled |-> FALSE, swapped |-> [ab |-> 0, ba |-> 0]]
  /\ lockFile = NoFile
  /\ acquired = [p \in Procs |-> FALSE]
  /\ IdleLockAux
  /\ IdleRun
  /\ IdleRelay
  /\ IdleComplete
  /\ IdleSess
  /\ IdleDag
  /\ IdlePipe
  /\ IdleKnow
  /\ IdlePoll
  /\ IdleSig
  /\ IdleStg
  /\ IdleRst
  /\ IdleRl
  /\ IdlePr

NextSim == CallDetectLoop \/ CallTextSimilarity

SpecSim == InitSim /\ [][NextSim]_vars

\* The lines of a text that are not blank, as a set.
LineSet(t) == {NonBlank(t)[i] : i \in 1..Len(NonBlank(t))}

\* Number of lines of a that occur in b, and the longer line count.
SharedLines(a, b) == Cardinality({i \in 1..Len(NonBlank(a)) : NonBlank(a)[i] \in LineSet(b)})
LongerCount(a, b) == Max(Len(NonBlank(a)), Len(NonBlank(b)))

\* The lengths differ by less than 20% of either.
LengthsWithin20(a, b) ==
  /\ 5 * Abs(TextLength(a) - TextLength(b)) < TextLength(a)
  /\ 5 * Abs(TextLength(a) - TextLength(b)) < TextLength(b)

\* C25: for texts whose lengths differ by less than 20%, isLoop is true
\* when the line overlap is at least 85% (85% included) and false when it
\* is below.  Violated: the comparison is `similarity > 85`, so an overlap
\* of exactly 85% (17 of 20 lines) is not a loop.
C25_LoopIffOverlapAtLeast85 ==
  (dres # <<>> /\ dres.loopCalled /\ LengthsWithin20(dprev, dcurr)
     /\ LongerCount(dprev, dcurr) > 0)
    => (dres.loop.isLoop
          <=> 100 * SharedLines(dprev, dcurr) >= LoopThreshold * LongerCount(dprev, dcurr))

\* C26: the similarity of (a, b) equals the similarity of (b, a).  Violated:
\* the lines of the first text are counted with their repetitions against
\* the set of lines of the second.
C26_SimilaritySymmetric ==
  (dres # <<>> /\ dres.simCalled) => dres.swapped.ab = dres.swapped.ba

\* C26 on texts without repeated lines.
C26_SymmetricWithoutRepeats ==
  (dres # <<>> /\ dres.simCalled
     /\ Cardinality(LineSet(dprev)) = Len(NonBlank(dprev))
     /\ Cardinality(LineSet(dcurr)) = Len(NonBlank(dcurr)))
    => dres.swapped.ab = dres.swapped.ba

\* runRelayCore with the scheduling the claim assumes: the sequential code
\* goes on, the waits end, and every launched session eventually ends.
IterationHead ==
  IterMaxReached \/ IterComplete \/ IterStuck \/ IterPromptFail \/ IterLaunch

SessionReturns ==
  \/ SessionThrows
  \/ SessionRateLimited
  \/ \E exitCode \in {0, 1}, verifyPassed \in BOOLEAN : SessionEnd(exitCode, verifyPassed)

\* One step of runRelayCore itself, as opposed to the agent's writes.
RelayStep == IterationHead \/ SessionReturns \/ BackoffDone \/ PauseDone

SpecRelayLive == SpecRelay /\ WF_vars(RelayStep)

\* C27: runRelayCore returns, after at most maxSessions - startSession
\* counted iterations, and for one of the five reasons: completion, three
\* consecutive loops, three consecutive crashes, verification passing, the
\* ordinal reaching maxSessions.
C27_RelayReturnsWithinBudget ==
  /\ <>(rpc = "done")
  /\ [](/\ rhist.counted <= Max(0, rcfg.maxSessions - rcfg.startSession)
        /\ sessionCount - rcfg.startSession <= Max(0, rcfg.maxSessions - rcfg.startSession)
        /\ rpc = "done" =>
             \/ outcome.kind = "complete" /\ IsComplete(progressFile)
             \/ outcome.kind = "stuck" /\ consecutiveLoops >= LoopLimit
             \/ outcome.kind = "error" /\ consecutiveCrashes >= CrashLimit
             \/ outcome.kind = "verified_complete" /\ rcfg.verify
             \/ outcome.kind = "max_sessions" /\ sessionCount >= rcfg.maxSessions)

\* C27 witness: the relay returned after using its whole budget of more
\* than one counted iteration, one attempt having been rate-limited.
C27_Witness ==
  /\ rpc = "done"
  /\ rhist.rlCount >= 1
  /\ rhist.counted >= 2
  /\ rhist.counted = rcfg.maxSessions - rcfg.startSession

\* C28: a rate-limited attempt is invisible to the counting.  Neither count
\* changes while the attempt runs or waits, so "as if the attempt had never
\* occurred" means: the end of the wait leaves the consecutive-crash count
\* as it was, the head of the retry iteration leaves the consecutive-loop
\* count as it was, and a fresh relay is stopped as stuck only after three
\* counted sessions.
C28_RateLimitInvisibleToCounting ==
  /\ [][/\ rpc = "backoff" => consecutiveCrashes' = consecutiveCrashes
        /\ (rpc = "head" /\ rhist.afterRateLimit)
             => consecutiveLoops' = consecutiveLoops]_vars
  /\ []((outcome.kind = "stuck" /\ rcfg.startSession = 0) => rhist.counted >= 3)

\* C29: the launcher's readiness detector and the relay core's completion
\* detector agree: on the same progress record and marker, the launcher's
\* status pattern matches exactly when isComplete answers true.
C29_DetectorsAgree ==
  (cresult # "none" /\ cready # "none") => (cready = cresult)

\* The records on which the two detectors do agree: those whose first
\* HeadLines lines hold every line of the record that names the marker or
\* the sentinel, each such line being a STATUS line of the marker itself.
C29_AgreeOnPlainStatusHead ==
  (/\ cresult # "none" /\ cready # "none"
   /\ Len(crecord) <= HeadLines
   /\ \A i \in 1..Len(crecord) :
        crecord[i] \in {<<"STATUS:", cmarker>>, <<"STATUS:", "IN_PROGRESS">>, <<"notes">>})
    => (cready = cresult)

\* C30: rescue synthesis never destroys a completion declaration: when a
\* print session returns and the agent has left a fresh progress record
\* whose STATUS line declares the configured marker, the return leaves the
\* progress record as it is, still declaring completion.
C30_RescueKeepsCompletion ==
  [][(/\ scfg.mode = "print"
      /\ spc = "running" /\ spc' = "returned"
      /\ Fresh(sfiles.progress)
      /\ sfiles.progress.status = "complete")
       => /\ sfiles'.progress = sfiles.progress
          /\ sfiles'.progress.status = "complete"]_vars

\* The case the code keeps: the configured marker is the default one.
C30_DefaultMarkerKept ==
  [][(/\ scfg.mode = "print"
      /\ scfg.marker \in RescueMarkers
      /\ spc = "running" /\ spc' = "returned"
      /\ Fresh(sfiles.progress)
      /\ sfiles.progress.status = "complete")
       => sfiles'.progress = sfiles.progress]_vars

\* C31: at most one agent subprocess acts on the working directory at any
\* time: an orchestrator that has exited (and so released the lock) has no
\* agent subprocess left alive, and no two agents are alive together.
C31_OneAgentPerDirectory ==
  /\ \A p \in Procs : phase[p] = "exited" => hist[p].agent # "alive"
  /\ Cardinality({p \in Procs : hist[p].agent = "alive"}) <= 1

\* The part the code keeps: within a running orchestrator the agent
\* subprocess is alive only while the orchestrator waits for its session.
C31_AgentOnlyDuringSession ==
  \A p \in Procs :
    phase[p] \notin {"session", "exited"} => hist[p].agent # "alive"

\* Every stage the loop has run so far completed at its first attempt.
EveryRunCompleted ==
  \A i \in Launched : LaunchCount(i) = 1 /\ pstate[i] \in {"in_progress", "complete"}

\* A fresh run with no stage named by --skip-stage.
PlainFreshRun == pcfg.resume = NoStage /\ pcfg.skip = NoStage

\* C32: an accepted pipeline is runnable to completion: in a fresh run in
\* which every stage that is run completes, the loop does not exit early,
\* and when it is over every stage is recorded complete.
C32_AcceptedPipelineCompletes ==
  (prun # <<>> /\ PlainFreshRun /\ EveryRunCompleted)
    => /\ prun.pc # "exited"
       /\ prun.pc = "done" => \A i \in PipeStageIds : pstate[i] = "complete"

\* The pipelines for which this holds: those that declare every stage after
\* the stages it requires.
C32_DeclaredAfterRequirements ==
  (/\ prun # <<>> /\ PlainFreshRun /\ EveryRunCompleted
   /\ \A i \in PipeStageIds : \A dep \in pcfg.stages[i].requires : dep < i)
    => /\ prun.pc # "exited"
       /\ prun.pc = "done" => \A i \in PipeStageIds : pstate[i] = "complete"

-----------------------------------------------------------------------------
(* runStage (pipeline-loop.ts:246-365): the relay of one stage of a        *)
(* pipeline started fresh, over whatever an earlier run left in the        *)
(* stage folder.                                                           *)

\* .session_count of the stage folder: <<>> when there is none, else <<n>>.
SessionCountFiles == {<<>>} \cup {<<n>> : n \in 0..MaxStart}

\* state/files.ts initRelayDir (part_012:247-249): '0' is written only when
\* the file does not exist.
InitSessionCount(file) == IF file = <<>> THEN <<0>> ELSE file

\* state/files.ts:193-197.
ReadSessionCount(file) == IF file = <<>> THEN 0 ELSE file[1]

\* pipeline-loop.ts:43-57, 258-259, 342-353: initPipelineDir creates the
\* folders, initRelayDir initialises the stage folder, and the relay core is
\* started at the ordinal read from the stage's counter file, over the
\* stage's PROGRESS.md, NEXT_PROMPT.md and logs as they are.
InitStage ==
  /\ rpc = "head"
  /\ \E leftCount \in SessionCountFiles :
       rcfg \in [maxSessions : 1..MaxSessionsBound,
                 startSession : {ReadSessionCount(InitSessionCount(leftCount))},
                 verify : BOOLEAN]
  /\ sessionCount = rcfg.startSession
  /\ consecutiveLoops = 0
  /\ consecutiveCrashes = 0
  /\ progressFile \in {"absent", "working", "complete"}
  /\ nextPrompt \in IF rcfg.startSession = 0 THEN {0} ELSE {0} \cup TextIds
  /\ archive \in {a \in [1..(MaxSessionsBound + MaxStart) -> {0} \cup TextIds] :
                    \A n \in DOMAIN a : n # rcfg.startSession => a[n] = 0}
  /\ statusFile = "none"
  /\ outcome = [kind |-> "none", exitCode |-> 0 - 1]
  /\ rhist = [launched |-> 0, counted |-> 0, rlCount |-> 0,
              lastDet |-> <<>>, lastKinds |-> <<>>,
              clean |-> TRUE, markerWritten |-> FALSE, everFlagged |-> FALSE,
              afterRateLimit |-> FALSE, verifyFailed |-> FALSE,
              wroteThis |-> FALSE, disjointChain |-> TRUE, prevRecord |-> 0]
  /\ lockFile = NoFile
  /\ acquired = [p \in Procs |-> FALSE]
  /\ IdleLockAux
  /\ IdleRun
  /\ IdleComplete
  /\ IdleSess
  /\ IdleDag
  /\ IdlePipe
  /\ IdleKnow
  /\ IdleSim
  /\ IdlePoll
  /\ IdleSig
  /\ IdleRst
  /\ IdleRl
  /\ IdlePr
  /\ stg = [pc |-> "core", completed |-> FALSE, verifyRan |-> FALSE, verifyPassed |-> FALSE]

\* pipeline-loop.ts:355-364: what runStage makes of the core's result and
\* of its own run of the stage's verification command.
StageCompletedMutant(coreCompleted, hasVerify, passed) == coreCompleted
StageCompleted(coreCompleted, hasVerify, passed) ==
  IF coreCompleted /\ hasVerify THEN passed ELSE coreCompleted

\* pipeline-loop.ts:342-364: the relay core has returned; when it reports
\* completion and the stage has a verification command, the command is run
\* once more; runStage returns and the loop records the stage (179-182).
RunStageReturn(verifyPassed) ==
  /\ rpc = "done"
  /\ stg.pc = "core"
  /\ LET coreCompleted == outcome.kind \in {"complete", "verified_complete"}
         ran == coreCompleted /\ rcfg.verify
     IN \* the command is run only in the case of line 356
        /\ (~ran => ~verifyPassed)
        /\ stg' = [pc |-> "returned",
                   completed |-> StageCompleted(coreCompleted, rcfg.verify, verifyPassed),
                   verifyRan |-> ran,
                   verifyPassed |-> verifyPassed]
  /\ UNCHANGED <<lockVars, runVars, relayVars, notStg>>

NextStageRelay ==
  \/ NextRelay
  \/ \E verifyPassed \in BOOLEAN : RunStageReturn(verifyPassed)

SpecStage == InitStage /\ [][NextStageRelay]_vars

\* C33: a stage of a pipeline started fresh is independent of earlier runs:
\* its first session has ordinal 1, the full session budget is available
\* (the relay ends on max_sessions only after maxSessions counted
\* sessions), and it is found complete only through a progress record
\* written in this run.
C33_FreshStageIndependent ==
  /\ [][(rhist.launched = 0 /\ rhist'.launched = 1) => sessionCount' = 1]_vars
  /\ [](/\ outcome.kind = "max_sessions" => rhist.counted = rcfg.maxSessions
        /\ outcome.kind = "complete" => rhist.markerWritten)

\* C34: when the stage loop is over and the pipeline is reported finished,
\* every stage is recorded complete or skipped, in runs started with the
\* resume-stage option too.
C34_FinishedMeansAllSettled ==
  (prun # <<>> /\ prun.pc = "done")
    => \A i \in PipeStageIds : psaved[i] \in {"complete", "skipped"}

\* The runs for which this holds: those started at the first stage.
C34_SettledWhenStartedAtFirstStage ==
  (prun # <<>> /\ prun.pc = "done" /\ pcfg.resume \in {NoStage, 1})
    => \A i \in PipeStageIds : psaved[i] \in {"complete", "skipped"}

-----------------------------------------------------------------------------
(* The handoff poller of runTuiSession (session.ts:166-226): one action per *)
(* tick of the interval timer.                                             *)

\* session.ts:184-193: the progress record matches the completion pattern.
IsCompletion(f) == f.progress.exists /\ f.progress.status = "complete"

\* session.ts:199: the size seen now is positive and is the size seen by
\* the poll before.
StableSizeMutant(currentSize, lastSize) == currentSize > 0
StableSize(currentSize, lastSize) ==
  currentSize > 0 /\ currentSize = lastSize /\ lastSize > 0

\* What a poll sees, kept for the last two polls.
Observe(f) ==
  [ready |-> IsHandoffReady(f),
   size |-> IF f.next.exists THEN f.next.size ELSE 0,
   completion |-> IsCompletion(f)]

Push2(seq, x) == IF Len(seq) < 2 THEN Append(seq, x) ELSE <<seq[2], x>>

\* session.ts:176-224: one tick of the poller.
PollTick ==
  /\ tpoll.pc = "polling"
  /\ LET nextPromptExists == tfiles.next.exists
         currentSize == IF nextPromptExists THEN tfiles.next.size ELSE 0
         last == tpoll.lastNextPromptSize
     IN tpoll' =
          IF IsHandoffReady(tfiles)
            THEN IF ~nextPromptExists /\ ~IsCompletion(tfiles)
                   THEN [tpoll EXCEPT !.lastNextPromptSize = 0 - 1]
                 ELSE IF StableSize(currentSize, last)
                   THEN [tpoll EXCEPT !.pc = "grace"]
                 ELSE IF IsCompletion(tfiles) /\ last = currentSize
                   THEN [tpoll EXCEPT !.pc = "grace"]
                 ELSE [tpoll EXCEPT !.lastNextPromptSize = currentSize]
            ELSE [tpoll EXCEPT !.lastNextPromptSize = 0 - 1]
  /\ thist' = Push2(thist, Observe(tfiles))
  /\ UNCHANGED <<tfiles, notPoll>>

\* session.ts:206-208, 214-216: the grace timer fires, child.kill('SIGTERM').
GraceEnds ==
  /\ tpoll.pc = "grace"
  /\ tpoll' = [tpoll EXCEPT !.pc = "sent"]
  /\ UNCHANGED <<tfiles, thist, notPoll>>

\* The agent writes a handoff file while the TUI runs.
TuiAgentWrites(f2) ==
  /\ tpoll.pc \in {"polling", "grace"}
  /\ f2 # tfiles
  /\ tfiles' = f2
  /\ UNCHANGED <<tpoll, thist, notPoll>>

\* session.ts:243-246: the child exits by itself; the timers are cleared.
TuiChildExit ==
  /\ tpoll.pc \in {"polling", "grace"}
  /\ tpoll' = [tpoll EXCEPT !.pc = "exited"]
  /\ UNCHANGED <<tfiles, thist, notPoll>>

\* Polling starts 30 s after the launch, over the files of earlier sessions;
\* touchSessionStart has removed the signal file.
InitPoll ==
  /\ tfiles \in [progress : {NoProgress,
                             [exists |-> TRUE, mtime |-> StaleTime,
                              status |-> "in_progress", ordinal |-> FALSE]},
                 next : {NoNext,
                         [exists |-> TRUE, mtime |-> StaleTime,
                          size |-> 100, ordinal |-> FALSE]},
                 signal : {NoSignal}]
  /\ tpoll = [lastNextPromptSize |-> 0 - 1, pc |-> "polling"]
  /\ thist = <<>>
  /\ lockFile = NoFile
  /\ acquired = [p \in Procs |-> FALSE]
  /\ IdleLockAux
  /\ IdleRun
  /\ IdleRelay
  /\ IdleComplete
  /\ IdleSess
  /\ IdleDag
  /\ IdlePipe
  /\ IdleKnow
  /\ IdleSim
  /\ IdleSig
  /\ IdleStg
  /\ IdleRst
  /\ IdleRl
  /\ IdlePr

NextPoll ==
  \/ PollTick
  \/ GraceEnds
  \/ \E st \in {"in_progress", "complete"} :
       TuiAgentWrites([tfiles EXCEPT !.progress =
         [exists |-> TRUE, mtime |-> NowTime, status |-> st, ordinal |-> FALSE]])
  \/ \E sz \in NextSizes :
       TuiAgentWrites([tfiles EXCEPT !.next =
         [exists |-> TRUE, mtime |-> NowTime, size |-> sz, ordinal |-> FALSE]])
  \/ TuiAgentWrites([tfiles EXCEPT !.signal = [exists |-> TRUE, mtime |-> NowTime]])
  \/ TuiChildExit

SpecPoll == InitPoll /\ [][NextPoll]_vars

\* C35: the poller decides to terminate only at a poll that, like the poll
\* before it, found the handoff ready and the next-task file of the same
\* size, that size being non-zero unless the progress record declares
\* completion; the signal is sent only after the grace period that follows
\* the decision.
C35_TerminatesOnlyWhenStable ==
  /\ [](tpoll.pc \in {"grace", "sent"}
          => /\ Len(thist) = 2
             /\ thist[1].ready /\ thist[2].ready
             /\ thist[1].size = thist[2].size
             /\ thist[2].size > 0 \/ thist[2].completion)
  /\ [][tpoll'.pc = "sent" => tpoll.pc \in {"grace", "sent"}]_vars

\* C35 witness: the signal was sent after two polls that saw the handoff
\* signalled, no completion, and a next-task file of the same non-zero size.
C35_Witness ==
  /\ tpoll # <<>>
  /\ tpoll.pc = "sent"
  /\ thist[2].size > 0
  /\ ~thist[2].completion

-----------------------------------------------------------------------------
(* The handoff signal file over the sessions of one relay: touchSessionStart *)
(* before each launch, the agent's and the rescue's writes, and the two     *)
(* checks that read it.                                                     *)

MaxClock == 3
MaxSigSessions == 3

NoMarker == [exists |-> FALSE, mtime |-> 0]
NoSignalFile == [exists |-> FALSE, mtime |-> 0, session |-> 0]

\* state/files.ts touchSessionStart (part_012:283): the signal file is unlinked.
ClearSignalMutant(signal) == signal
ClearSignal(signal) == NoSignalFile

\* session.ts:80-94: the signal part of isHandoffReady.
SignalReady(signal, marker) ==
  IF signal.exists
    THEN IF marker.exists THEN signal.mtime > marker.mtime ELSE TRUE
    ELSE FALSE

\* session.ts:376-377, 392-394: the signal part of hasValidHandoff.
SignalFresh(signal, marker) ==
  LET sessionStart == IF marker.exists THEN marker.mtime ELSE 0
  IN signal.exists /\ signal.mtime > sessionStart

\* Time passes.
SigTick ==
  /\ gsess.pc \in {"head", "running"}
  /\ gclock < MaxClock
  /\ gclock' = gclock + 1
  /\ UNCHANGED <<gstart, gsignal, gsess, ghist, notSig>>

\* relay-loop.ts:140-148 with touchSessionStart (part_012:279-284): the
\* marker is written, the signal file removed, the session launched.
SigLaunch ==
  /\ gsess.pc = "head"
  /\ gsess.n < MaxSigSessions
  /\ gstart' = [exists |-> TRUE, mtime |-> gclock]
  /\ gsignal' = ClearSignal(gsignal)
  /\ gsess' = [n |-> gsess.n + 1, pc |-> "running"]
  /\ UNCHANGED <<gclock, ghist, notSig>>

\* The agent writes .handoff_signal as the last step of its handoff.
SigAgentWrites ==
  /\ gsess.pc = "running"
  /\ gsignal' = [exists |-> TRUE, mtime |-> gclock, session |-> gsess.n]
  /\ UNCHANGED <<gclock, gstart, gsess, ghist, notSig>>

\* session.ts:176-177: a poll of the TUI launcher calls isHandoffReady.
SigPoll ==
  /\ gsess.pc = "running"
  /\ LET r == SignalReady(gsignal, gstart) IN
       ghist' = [ghist EXCEPT
                   !.readyOnStale = @ \/ (r /\ gsignal.session # gsess.n),
                   !.readyOnFresh = @ \/ (r /\ gsignal.session = gsess.n)]
  /\ UNCHANGED <<gclock, gstart, gsignal, gsess, notSig>>

\* session.ts:733-740 and 477: the session is over, hasValidHandoff is
\* called, and when the handoff is not valid (and tools were used) the
\* rescue handoff writes the signal file.
SigSessionEnd(toolsUsed) ==
  /\ gsess.pc = "running"
  /\ LET v == SignalFresh(gsignal, gstart) IN
       /\ ghist' = [ghist EXCEPT
                      !.validOnStale = @ \/ (v /\ gsignal.session # gsess.n),
                      !.validOnFresh = @ \/ (v /\ gsignal.session = gsess.n)]
       /\ gsignal' = IF ~v /\ toolsUsed
                       THEN [exists |-> TRUE, mtime |-> gclock, session |-> gsess.n]
                       ELSE gsignal
  /\ gsess' = [gsess EXCEPT !.pc = "head"]
  /\ UNCHANGED <<gclock, gstart, notSig>>

\* The relay starts over whatever an earlier run left: a signal file and a
\* marker (a crash leaves both, cleanupRelay removes both).
InitSig ==
  /\ gclock = 0
  /\ gstart \in {NoMarker, [exists |-> TRUE, mtime |-> 0]}
  /\ gsignal \in {NoSignalFile, [exists |-> TRUE, mtime |-> 0, session |-> 0]}
  /\ gsess = [n |-> 0, pc |-> "head"]
  /\ ghist = [readyOnStale |-> FALSE, readyOnFresh |-> FALSE,
              validOnStale |-> FALSE, validOnFresh |-> FALSE]
  /\ lockFile = NoFile
  /\ acquired = [p \in Procs |-> FALSE]
  /\ IdleLockAux
  /\ IdleRun
  /\ IdleRelay
  /\ IdleComplete
  /\ IdleSess
  /\ IdleDag
  /\ IdlePipe
  /\ IdleKnow
  /\ IdleSim
  /\ IdlePoll
  /\ IdleStg
  /\ IdleRst
  /\ IdleRl
  /\ IdlePr

NextSig ==
  \/ SigTick
  \/ SigLaunch
  \/ SigAgentWrites
  \/ SigPoll
  \/ \E toolsUsed \in BOOLEAN : SigSessionEnd(toolsUsed)

SpecSig == InitSig /\ [][NextSig]_vars

\* C36: a signal file written during an earlier session is never taken as
\* readiness or as a valid handoff of a later one; while a session runs no
\* signal file of an earlier session exists, and an existing signal file
\* that is not newer than the session-start marker is ignored by both checks.
C36_StaleSignalNeverTaken ==
  (gsess # <<>>) =>
    /\ ~ghist.readyOnStale
    /\ ~ghist.validOnStale
    /\ gsess.pc = "running" =>
         /\ gsignal.exists => gsignal.session = gsess.n
         /\ (gsignal.exists /\ gsignal.mtime <= gstart.mtime)
              => (~SignalReady(gsignal, gstart) /\ ~SignalFresh(gsignal, gstart))

\* C36 witness: in a later session, after the rescue of the session before
\* wrote a signal file, the agent's own signal was taken as readiness.
C36_Witness ==
  /\ gsess # <<>>
  /\ gsess.n >= 2
  /\ ghist.readyOnFresh
  /\ ghist.validOnFresh
  /\ gsess.pc = "running"
  /\ gsignal.exists /\ gsignal.mtime <= gstart.mtime

\* C37: a stage that declares a verification command is recorded complete
\* only if the command passed in a run made after the stage's last session
\* (the run runStage makes once the relay core has returned); a completion
\* marker alone does not make it complete.
C37_VerifiedStageNeedsPassingRun ==
  (stg # <<>> /\ stg.pc = "returned" /\ rcfg.verify)
    => /\ stg.completed => (stg.verifyRan /\ stg.verifyPassed /\ rpc = "done")
       /\ (outcome.kind = "complete" /\ ~stg.verifyPassed) => ~stg.completed

\* C37 witness: the core found the marker after a session, and the stage
\* was recorded complete after its verification passed.
C37_Witness ==
  /\ stg # <<>>
  /\ stg.pc = "returned"
  /\ rcfg.verify
  /\ outcome.kind = "complete"
  /\ rhist.launched >= 1
  /\ stg.completed

-----------------------------------------------------------------------------
(* resetStageForRetry (state/files.ts, part_012:439-445), called between   *)
(* the attempts of a stage with policy retry (pipeline-loop.ts:196-202).   *)

\* The paths of a stage folder (resolveStagePaths) other than the counter.
StageFileNames ==
  {"progress", "next", "knowledge", "status", "logs", "start", "active", "signal"}

\* part_012:440, toRemove.
ToRemoveMutant == {"progress", "next", "start", "knowledge"}
ToRemove == {"progress", "next", "start"}

\* part_012:439-445: the folder after the call.
ResetStageForRetry(folderBefore) ==
  [files |-> [f \in StageFileNames |->
                IF f \in ToRemove THEN 0 ELSE folderBefore.files[f]],
   count |-> <<0>>]

\* pipeline-loop.ts:196-202: an attempt did not complete and another follows.
CallResetStageForRetry ==
  /\ rbefore = <<>>
  /\ rbefore' = rfolder
  /\ rfolder' = ResetStageForRetry(rfolder)
  /\ UNCHANGED notRst

\* The stage folder after an attempt that did not complete: initRelayDir
\* made KNOWLEDGE.md and status.json exist, and the sessions wrote the counter.
InitRst ==
  /\ rfolder \in [files : {fi \in [StageFileNames -> {0, 1, 2}] :
                             /\ fi["knowledge"] \in {1, 2}
                             /\ fi["status"] \in {1, 2}
                             /\ \A f \in StageFileNames \ {"knowledge"} : fi[f] # 2},
                  count : SessionCountFiles \ {<<>>}]
  /\ rbefore = <<>>
  /\ lockFile = NoFile
  /\ acquired = [p \in Procs |-> FALSE]
  /\ IdleLockAux
  /\ IdleRun
  /\ IdleRelay
  /\ IdleComplete
  /\ IdleSess
  /\ IdleDag
  /\ IdlePipe
  /\ IdleKnow
  /\ IdleSim
  /\ IdlePoll
  /\ IdleSig
  /\ IdleStg
  /\ IdleRl
  /\ IdlePr

NextRst == CallResetStageForRetry

SpecRst == InitRst /\ [][NextRst]_vars

\* C38: after the reset the progress record, the next-task record and the
\* session-start marker are gone and the counter is 0; every other file of
\* the stage folder, the knowledge base among them, is as it was.
C38_ResetKeepsKnowledge ==
  (rbefore # <<>>)
    => /\ \A f \in {"progress", "next", "start"} : rfolder.files[f] = 0
       /\ ReadSessionCount(rfolder.count) = 0
       /\ \A f \in {"knowledge", "status", "logs", "active", "signal"} :
            rfolder.files[f] = rbefore.files[f]

\* C38 witness: a reset of a folder that held all three records, a counter
\* above 0 and a knowledge base.
C38_Witness ==
  /\ rbefore # <<>>
  /\ \A f \in {"progress", "next", "start", "logs"} : rbefore.files[f] = 1
  /\ ReadSessionCount(rbefore.count) > 0
  /\ rbefore.files["knowledge"] = 2

-----------------------------------------------------------------------------
(* handleRateLimit (relay-loop.ts:32-50). Times are in seconds.            *)

\* relay-loop.ts:34: the margin added to the reported reset time.
ResetSlack == 30
\* relay-loop.ts:34: the wait when resetAt is falsy.
DefaultWait == 300
\* config.ts:70: DEFAULT_CONFIG.rateLimitMaxWait.
RateLimitMaxWait == 18000
\* relay-loop.ts:45: the countdown's tick.
TickLen == 10

Min(a, b) == IF a <= b THEN a ELSE b

\* Date.now() at the call.
NowTimes == {1000}

\* resetAt: number | null; <<>> is null. Times before, at and after now,
\* around the margin and beyond the maximum wait.
ResetTimes ==
  {<<>>} \cup {<<t>> : t \in {0, 1, 960, 970, 971, 1000, 1100, 1270,
                             18969, 18970, 18971, 30000}}

\* config.rateLimitMaxWait (config.ts:52): the default and a shorter one.
MaxWaits == {120, RateLimitMaxWait}

\* relay-loop.ts:34, `resetAt ? ... : ...`: null and 0 are falsy.
ResetTruthy(resetAt) == resetAt # <<>> /\ resetAt[1] # 0

\* relay-loop.ts:34-35.
WaitMsMutant(resetAt, now, maxWait) ==
  IF ResetTruthy(resetAt) THEN Max(resetAt[1] - now + ResetSlack, 0)
  ELSE DefaultWait
WaitMs(resetAt, now, maxWait) ==
  Min(IF ResetTruthy(resetAt) THEN Max(resetAt[1] - now + ResetSlack, 0)
      ELSE DefaultWait,
      maxWait)

\* relay-loop.ts:33-40: the wait is computed and the countdown starts.
HandleRateLimitStart ==
  /\ rl.pc = "called"
  /\ rl' = [rl EXCEPT !.pc = "waiting",
                      !.waitMs = WaitMs(rl.resetAt, rl.now, rl.maxWait),
                      !.remaining = WaitMs(rl.resetAt, rl.now, rl.maxWait)]
  /\ UNCHANGED <<lockVars, runVars, relayVars, notRl>>

\* relay-loop.ts:41-48: one round of the countdown.
RateLimitTick ==
  /\ rl.pc = "waiting"
  /\ rl.remaining > 0
  /\ LET tick == Min(TickLen, rl.remaining)
     IN  rl' = [rl EXCEPT !.remaining = @ - tick, !.slept = @ + tick]
  /\ UNCHANGED <<lockVars, runVars, relayVars, notRl>>

\* relay-loop.ts:41, 49: the countdown is over and the call returns.
HandleRateLimitReturn ==
  /\ rl.pc = "waiting"
  /\ rl.remaining <= 0
  /\ rl' = [rl EXCEPT !.pc = "returned"]
  /\ UNCHANGED <<lockVars, runVars, relayVars, notRl>>

InitRl ==
  /\ rl \in [pc : {"called"}, now : NowTimes, resetAt : ResetTimes,
             maxWait : MaxWaits, waitMs : {0}, remaining : {0}, slept : {0}]
  /\ lockFile = NoFile
  /\ acquired = [p \in Procs |-> FALSE]
  /\ IdleLockAux
  /\ IdleRun
  /\ IdleRelay
  /\ IdleComplete
  /\ IdleSess
  /\ IdleDag
  /\ IdlePipe
  /\ IdleKnow
  /\ IdleSim
  /\ IdlePoll
  /\ IdleSig
  /\ IdleStg
  /\ IdleRst
  /\ IdlePr

NextRl == HandleRateLimitStart \/ RateLimitTick \/ HandleRateLimitReturn

SpecRl == InitRl /\ [][NextRl]_vars

-----------------------------------------------------------------------------
(* runPrintSession (session.ts:545-745): the child's events and the        *)
(* wrapper's reading loop and exit listener.                               *)

\* The stdout lines the reading loop handles in one session.
MaxPrintLines == 2

\* The code of the child's exit event: <<>> is null (killed by a signal).
ExitCodes == {<<>>, <<0>>, <<1>>}

\* session.ts:684-687: the exit listener's resolution.
ResolvedCode(killed, code) ==
  IF killed THEN 0 ELSE IF code = <<>> THEN 1 ELSE code[1]

\* The child writes a line to stdout; Node buffers it for the reading loop.
ChildWrites ==
  /\ pr.child = "alive"
  /\ ~pr.stdoutEnded
  /\ pr.written < MaxPrintLines
  /\ pr' = [pr EXCEPT !.written = @ + 1]
  /\ UNCHANGED <<lockVars, runVars, relayVars, notPr>>

\* The child's stdout reaches its end: the child closed it or exited.
StdoutEnds ==
  /\ ~pr.stdoutEnded
  /\ pr' = [pr EXCEPT !.stdoutEnded = TRUE]
  /\ UNCHANGED <<lockVars, runVars, relayVars, notPr>>

\* session.ts:585-680: one round of `for await (const line of rl)`.
ReadLine(isToolUse) ==
  /\ pr.pc = "reading"
  /\ pr.read < pr.written
  /\ pr' = [pr EXCEPT !.read = @ + 1,
                      !.toolUseCount = IF isToolUse THEN @ + 1 ELSE @]
  /\ UNCHANGED <<lockVars, runVars, relayVars, notPr>>

\* session.ts:585, 682-693: the loop ends when stdout has ended and every
\* line is handled; only then are the exit and error listeners registered.
RegisterExitListener ==
  /\ pr.pc = "reading"
  /\ pr.stdoutEnded
  /\ pr.read = pr.written
  /\ pr' = [pr EXCEPT !.pc = "awaiting", !.listening = TRUE]
  /\ UNCHANGED <<lockVars, runVars, relayVars, notPr>>

\* The child process ends and Node emits 'exit' once, to the listeners
\* registered at that moment (session.ts:684-687).
ChildExitEvent(code) ==
  /\ pr.child = "alive"
  /\ code = <<>> => pr.killed
  /\ pr' = [pr EXCEPT !.child = "exited",
                      !.timerArmed = IF pr.listening THEN FALSE ELSE @,
                      !.resolved = IF pr.listening
                                   THEN <<ResolvedCode(pr.killed, code)>> ELSE @]
  /\ UNCHANGED <<lockVars, runVars, relayVars, notPr>>

\* session.ts:565-573: the session timeout fires; kill() does nothing to a
\* child that has exited.
PrintTimeoutFires ==
  /\ pr.timerArmed
  /\ pr.pc # "returned"
  /\ pr' = [pr EXCEPT !.timerArmed = FALSE, !.killed = TRUE]
  /\ UNCHANGED <<lockVars, runVars, relayVars, notPr>>

\* session.ts:683, 695-745: the promise is resolved and the function returns.
PrintSessionReturns ==
  /\ pr.pc = "awaiting"
  /\ pr.resolved # <<>>
  /\ pr' = [pr EXCEPT !.pc = "returned", !.timerArmed = FALSE]
  /\ UNCHANGED <<lockVars, runVars, relayVars, notPr>>

\* session.ts:549-573: the child is spawned and the timer armed when
\* config.sessionTimeout > 0.
InitPr ==
  /\ pr \in [pc : {"reading"}, child : {"alive"}, stdoutEnded : {FALSE},
             written : {0}, read : {0}, toolUseCount : {0},
             listening : {FALSE}, resolved : {<<>>},
             timerArmed : BOOLEAN, killed : {FALSE}]
  /\ lockFile = NoFile
  /\ acquired = [p \in Procs |-> FALSE]
  /\ IdleLockAux
  /\ IdleRun
  /\ IdleRelay
  /\ IdleComplete
  /\ IdleSess
  /\ IdleDag
  /\ IdlePipe
  /\ IdleKnow
  /\ IdleSim
  /\ IdlePoll
  /\ IdleSig
  /\ IdleStg
  /\ IdleRst
  /\ IdleRl

NextPr ==
  \/ ChildWrites
  \/ StdoutEnds
  \/ \E isToolUse \in BOOLEAN : ReadLine(isToolUse)
  \/ RegisterExitListener
  \/ \E code \in ExitCodes : ChildExitEvent(code)
  \/ PrintTimeoutFires
  \/ PrintSessionReturns

SpecPr == InitPr /\ [][NextPr]_vars

\* Every step of the wrapper and every event of the child eventually happens.
SpecPrLive ==
  /\ SpecPr
  /\ WF_vars(StdoutEnds)
  /\ WF_vars(\E isToolUse \in BOOLEAN : ReadLine(isToolUse))
  /\ WF_vars(RegisterExitListener)
  /\ WF_vars(\E code \in ExitCodes : ChildExitEvent(code))
  /\ WF_vars(PrintSessionReturns)

\* C40: whatever the order of the child's stdout end and exit relative to
\* the registration of the exit listener, the exit is observed and
\* runPrintSession returns.
C40_ExitNeverMissed == <>(pr # <<>> /\ pr.pc = "returned")

\* C40, the missed exit as a state: the wrapper never waits for an exit
\* that was emitted before it listened.
C40_NoWaitForPastExit ==
  ~(pr # <<>> /\ pr.pc = "awaiting" /\ pr.child = "exited" /\ pr.resolved = <<>>)

\* C40, the order that works: an exit emitted while the listener is
\* registered is observed, and the session then returns.
C40_ExitAfterRegistrationObserved ==
  [][(pr # <<>> /\ pr.listening /\ pr.child = "alive" /\ pr'.child = "exited")
       => pr'.resolved # <<>>]_vars

====
